---------------------------- MODULE Spec2Model ----------------------------
(***************************************************************************)
(* The identifier classification and corpus matching engine of leaks-data: *)
(* the watchlist scanner of bulk_search.py (load_patterns, extract_host,   *)
(* match_domain, find_email_domain, process_file, dedup_output,            *)
(* search_files) and the query classifier and predicate builder of app.py  *)
(* (ip_prefix_clause, tld_clause, url_filters, detect_mode, build_query).  *)
(*                                                                         *)
(* A Python str is a sequence of one-character strings: <<"a", ".", "b">>  *)
(* is "a.b".  Python's None is the one-element sequence None, which is no  *)
(* str because its element is not a character.                             *)
(***************************************************************************)
EXTENDS Integers, Sequences, FiniteSets, TLC

VARIABLES
    \* ---- match_domain called on its own
    candidate,        \* the argument of match_domain
    md_result,        \* what match_domain returned
    md_pc,            \* "call" | "done"
    \* ---- one pass of the line loop of process_file
    line,             \* the line read from the file, with its newline
    line_buffer,      \* buffer after the pass
    line_pc,          \* "read" | "done" | "raised"
    \* ---- the match file and dedup_output
    output,           \* the lines of the file at output_path
    dedup_runs,       \* how many times dedup_output has run on it
    match_records,    \* the matches the file was written from
    dedup_first,      \* the file as the first dedup_output left it
    \* ---- search_files and its worker threads
    root,             \* the files under root, in the order iter_files yields them
    workers,          \* --workers
    files,            \* search_files.files: indices into fs, largest first
    tasks,            \* per submitted process_file call: its locals and position
    output_lock,      \* 0 when free, else the task holding it
    progress_lock,    \* 0 when free, a task, or -1 for the main thread
    progress,         \* the shared progress dict
    main_pc,          \* where the main thread is in search_files
    submitted,        \* how many futures have been submitted
    yielded,          \* the futures as_completed has yielded
    done_files,       \* search_files.done_files
    snapshot,         \* search_files.total_done_snapshot
    \* ---- the compiled watchlist and the flags of a scan
    domain_set,       \* set(domains) of search_files
    ips,              \* the IP list of load_patterns, in file order
    skip_email,       \* --skip-email
    email_only,       \* --email-only
    \* ---- one request to /api/search
    url,              \* the url= parameter
    email,            \* the email= parameter
    login,            \* the login= parameter
    email_domain,     \* the email_domain= parameter
    q,                \* the q= parameter
    mode,             \* the mode= parameter
    detected,         \* build_query.detected, "unset" where line 162 is not reached
    where,            \* the clause and the arguments build_query returned
    count,            \* search.count
    query_pc,         \* "request" | "built" | "answered"
    \* ---- main reading the list file
    list_file,        \* the lines of the file at list_path
    load_pc           \* "start" | "loaded" | "refused" | "searching"

mdVars == <<candidate, md_result, md_pc>>
listVars == <<domain_set, ips, skip_email, email_only, list_file, load_pc>>
lineVars == <<line, line_buffer, line_pc>>
dedupVars == <<output, dedup_runs, match_records, dedup_first>>
scanVars == <<root, workers, files, tasks, output_lock, progress_lock, progress, main_pc,
              submitted, yielded, done_files, snapshot>>
queryVars == <<url, email, login, email_domain, q, mode, detected, where, count, query_pc>>
vars == <<mdVars, lineVars, dedupVars, scanVars, listVars, queryVars>>

-----------------------------------------------------------------------------
(* Characters and the str methods the code uses *)

None == <<"None">>

Whitespace == {" ", "\t", "\n", "\r"}

Digits == {"0", "1", "2", "3", "4", "5", "6", "7", "8", "9"}

LowerLetters == {"a", "b", "c", "d", "e", "f", "g", "h", "i", "j", "k", "l", "m",
                 "n", "o", "p", "q", "r", "s", "t", "u", "v", "w", "x", "y", "z"}

UpperLetters == {"A", "B", "C", "D", "E", "F", "G", "H", "I", "J", "K", "L", "M",
                 "N", "O", "P", "Q", "R", "S", "T", "U", "V", "W", "X", "Y", "Z"}

\* the two-byte letter of the model's alphabet: one character, two UTF-8 bytes
WideLetters == {"e_acute"}

UpperToLower ==
    [c \in UpperLetters |->
        CASE c = "A" -> "a" [] c = "B" -> "b" [] c = "C" -> "c" [] c = "D" -> "d"
          [] c = "E" -> "e" [] c = "F" -> "f" [] c = "G" -> "g" [] c = "H" -> "h"
          [] c = "I" -> "i" [] c = "J" -> "j" [] c = "K" -> "k" [] c = "L" -> "l"
          [] c = "M" -> "m" [] c = "N" -> "n" [] c = "O" -> "o" [] c = "P" -> "p"
          [] c = "Q" -> "q" [] c = "R" -> "r" [] c = "S" -> "s" [] c = "T" -> "t"
          [] c = "U" -> "u" [] c = "V" -> "v" [] c = "W" -> "w" [] c = "X" -> "x"
          [] c = "Y" -> "y" [] c = "Z" -> "z"]

\* str.isalnum() of one character
isalnum(c) == c \in LowerLetters \cup UpperLetters \cup Digits \cup WideLetters

\* str.lower()
lower(s) == [i \in 1..Len(s) |-> IF s[i] \in UpperLetters THEN UpperToLower[s[i]] ELSE s[i]]

RECURSIVE lstrip(_, _)
\* str.lstrip(chars)
lstrip(s, chars) ==
    IF s # <<>> /\ Head(s) \in chars THEN lstrip(Tail(s), chars) ELSE s

RECURSIVE rstrip(_, _)
\* str.rstrip(chars)
rstrip(s, chars) ==
    IF s # <<>> /\ s[Len(s)] \in chars THEN rstrip(SubSeq(s, 1, Len(s) - 1), chars) ELSE s

\* str.strip(): leading and trailing whitespace removed
strip(s) == rstrip(lstrip(s, Whitespace), Whitespace)

\* str.strip(chars)
stripc(s, chars) == rstrip(lstrip(s, chars), chars)

\* s[i:] of Python for a 1-based i: the characters from position i on
From(s, i) == SubSeq(s, i, Len(s))

\* str.startswith(p)
startswith(s, p) == Len(s) >= Len(p) /\ SubSeq(s, 1, Len(p)) = p

\* str.endswith(p)
endswith(s, p) == Len(s) >= Len(p) /\ SubSeq(s, Len(s) - Len(p) + 1, Len(s)) = p

\* whether sub occurs in s at (1-based) position i
At(s, sub, i) == i >= 1 /\ i + Len(sub) - 1 <= Len(s) /\ SubSeq(s, i, i + Len(sub) - 1) = sub

\* str.find(sub, start), 1-based: the first position >= start where sub occurs, 0 if none
find(s, sub, start) ==
    LET hits == {i \in start..(Len(s) - Len(sub) + 1) : At(s, sub, i)}
    IN IF hits = {} THEN 0 ELSE CHOOSE i \in hits : \A j \in hits : i <= j

\* sub in s
contains(s, sub) == find(s, sub, 1) # 0

RECURSIVE split(_, _, _)
\* str.split(sep, maxsplit): the list of parts; maxsplit = -1 for no limit
split(s, sep, maxsplit) ==
    LET at == find(s, sep, 1)
    IN IF maxsplit = 0 \/ at = 0
       THEN <<s>>
       ELSE <<SubSeq(s, 1, at - 1)>> \o split(From(s, at + Len(sep)), sep, maxsplit - 1)

RECURSIVE join(_, _)
\* sep.join(parts)
join(sep, parts) ==
    IF parts = <<>> THEN <<>>
    ELSE IF Len(parts) = 1 THEN parts[1]
    ELSE parts[1] \o sep \o join(sep, Tail(parts))

RECURSIVE Concat(_)
\* the concatenation of a list of strings
Concat(parts) == IF parts = <<>> THEN <<>> ELSE Head(parts) \o Concat(Tail(parts))

\* the sequences of at most n elements of S
SeqUpTo(S, n) == UNION {[1..k -> S] : k \in 0..n}

-----------------------------------------------------------------------------
(* The watchlist: load_patterns *)

\* ip_re of load_patterns and the same pattern in ip_prefix_clause:
\* ^\d{1,3}(\.\d{1,3}){3}$ (re.match: $ also matches before one final newline)
IsDigitGroup(p) == Len(p) \in 1..3 /\ \A i \in 1..Len(p) : p[i] \in Digits

RECURSIVE load_patterns_from(_, _, _)
load_patterns_from(lines, domains, ipl) ==
    IF lines = <<>> THEN [domains |-> domains, ips |-> ipl]
    ELSE LET value0 == strip(Head(lines))
             value1 == IF startswith(value0, <<"@">>) THEN Tail(value0) ELSE value0
             value == strip(value1)
             parts == split(value, <<".">>, -1)
         IN IF value0 = <<>> \/ startswith(value0, <<"#">>) \/ value = <<>>
            THEN load_patterns_from(Tail(lines), domains, ipl)
            ELSE IF Len(parts) = 4 /\ \A i \in 1..4 : IsDigitGroup(parts[i])
            THEN load_patterns_from(Tail(lines), domains, Append(ipl, value))
            ELSE load_patterns_from(Tail(lines), Append(domains, lower(value)), ipl)

\* load_patterns(path): the lines of the list file to (domains, ips)
load_patterns(lines) == load_patterns_from(lines, <<>>, <<>>)

\* set(domains)
ToSet(list) == {list[i] : i \in 1..Len(list)}

\* the list files of the model
WatchlistFiles ==
    { << <<"a", ".", "b">> >>,
      << <<"@", "A", ".", "B", "\n">>, <<"#", " ", "c">>, <<"\n">>, <<"1", ".", "1", ".", "1", ".", "1">> >>,
      << <<"b">>, <<"c", ".", "a", ".", "b">> >>,
      << <<".", "b">>, <<"a", ".", "b", ".">> >>,
      << <<"a", ".", "b">>, <<"b">>, <<"2", ".", "2", ".", "2", ".", "2">> >>,
      << <<"1", ".", "1", ".", "1", ".", "1">> >> }

-----------------------------------------------------------------------------
(* match_domain *)

RECURSIVE match_suffixes(_, _, _)
\* the loop of match_domain: for i in range(1, len(parts))
match_suffixes(parts, i, dset) ==
    IF i > Len(parts) THEN None
    ELSE LET suffix == join(<<".">>, From(parts, i))
         IN IF suffix \in dset THEN suffix ELSE match_suffixes(parts, i + 1, dset)

\* a match_domain that tests every character suffix, not only the label-aligned ones
match_domain_any_suffix(cand, dset) ==
    IF cand = <<>> THEN None
    ELSE LET c == stripc(lower(cand), {"."})
             hits == {k \in 1..Len(c) : From(c, k) \in dset}
         IN IF hits = {} THEN None
            ELSE From(c, CHOOSE k \in hits : \A j \in hits : k <= j)

match_domain(cand, dset) ==
    IF cand = <<>> THEN None
    ELSE LET c == stripc(lower(cand), {"."})
         IN IF c \in dset THEN c
            ELSE match_suffixes(split(c, <<".">>, -1), 2, dset)

\* the candidates match_domain is called with: at most MaxHostFrags pieces
MaxHostFrags == 3

HostFrags == { <<"a">>, <<"b">>, <<"c">>, <<"c", ".">>, <<".">>, <<"A">>, <<"a", ".", "b">> }

Candidates == {Concat(pieces) : pieces \in SeqUpTo(HostFrags, MaxHostFrags)}

InitList ==
    /\ \E wl \in WatchlistFiles :
          /\ domain_set = ToSet(load_patterns(wl).domains)
          /\ ips = load_patterns(wl).ips
          /\ list_file = wl
    /\ load_pc = "searching"
    /\ skip_email = FALSE
    /\ email_only = FALSE

IdleQuery ==
    /\ url = <<>> /\ email = <<>> /\ login = <<>> /\ email_domain = <<>> /\ q = <<>>
    /\ mode = "" /\ detected = "unset" /\ where = <<>> /\ count = 0 /\ query_pc = "idle"

IdleList ==
    /\ domain_set = {} /\ ips = <<>> /\ skip_email = FALSE /\ email_only = FALSE
    /\ list_file = <<>> /\ load_pc = "idle"

IdleScan ==
    /\ root = <<>> /\ workers = 1 /\ files = <<>> /\ tasks = <<>>
    /\ output_lock = 0 /\ progress_lock = 0
    /\ progress = [total_done |-> 0, total_size |-> 0, last_report |-> 0]
    /\ main_pc = "idle" /\ submitted = 0 /\ yielded = {} /\ done_files = 0 /\ snapshot = 0

IdleMatchDomain == candidate = <<>> /\ md_result = None /\ md_pc = "idle"

IdleLine == line = <<>> /\ line_buffer = <<>> /\ line_pc = "idle"

IdleDedup == output = <<>> /\ dedup_runs = 0 /\ match_records = <<>> /\ dedup_first = <<>>

InitMatchDomain ==
    /\ candidate \in Candidates
    /\ md_result = None
    /\ md_pc = "call"
    /\ InitList
    /\ IdleLine
    /\ IdleDedup
    /\ IdleScan
    /\ IdleQuery

MatchDomainCall ==
    /\ md_pc = "call"
    /\ md_result' = match_domain(candidate, domain_set)
    /\ md_pc' = "done"
    /\ UNCHANGED <<candidate, listVars, lineVars, dedupVars, scanVars, queryVars>>

NextMatchDomain == MatchDomainCall

SpecMatchDomain == InitMatchDomain /\ [][NextMatchDomain]_vars

\* the label-aligned suffixes of h: h itself and what follows each of its dots
LabelSuffixes(h) == {From(h, k) : k \in {j \in 1..Len(h) : j = 1 \/ h[j - 1] = "."}}

\* C5: match_domain returns a value iff the lower-cased, dot-stripped host or one
\* of its label-aligned suffixes is in the set, and then it is the longest of
\* those in the set; a host that has a listed domain only inside it, or ending
\* it off a label boundary, gets None.
C5_LongestLabelSuffix ==
    md_pc = "done" =>
        LET h == stripc(lower(candidate), {"."})
            listed == LabelSuffixes(h) \cap domain_set
        IN /\ (md_result # None) <=> (listed # {})
           /\ md_result # None =>
                 /\ md_result \in listed
                 /\ \A s \in listed : Len(s) <= Len(md_result)

\* a host two labels below a listed domain has matched by stripping two labels
C5_Witness ==
    /\ md_pc = "done"
    /\ candidate = <<"c", ".", "c", ".", "a", ".", "b">>
    /\ domain_set = {<<"a", ".", "b">>}
    /\ md_result = <<"a", ".", "b">>

-----------------------------------------------------------------------------
(* The line loop of process_file: lines 124-145 *)

\* the exception line_raw.split(maxsplit=1)[0] raises on a line of whitespace only
IndexError == <<"IndexError">>

\* bool(x) of a str or None
Truthy(x) == x # None /\ x # <<>>

\* ip_regex.search(line_raw).group(0): the pattern is the alternation of the
\* escaped IPs in list order, so the match is the leftmost one and, where several
\* IPs match at that place, the first of the list; None without a match
ip_regex_search(line_raw, ipl) ==
    LET hits == {i \in 1..Len(line_raw) : \E k \in 1..Len(ipl) : At(line_raw, ipl[k], i)}
    IN IF hits = {} THEN None
       ELSE LET i == CHOOSE x \in hits : \A y \in hits : x <= y
                ks == {k \in 1..Len(ipl) : At(line_raw, ipl[k], i)}
            IN ipl[CHOOSE k \in ks : \A j \in ks : k <= j]

\* line_raw.split(maxsplit=1): the first whitespace-delimited token, in a list,
\* or the empty list when the line holds whitespace only
first_tokens(line_raw) ==
    LET rest == lstrip(line_raw, Whitespace)
        ends == {i \in 1..Len(rest) : rest[i] \in Whitespace}
    IN IF rest = <<>> THEN <<>>
       ELSE IF ends = {} THEN <<rest>>
       ELSE <<SubSeq(rest, 1, (CHOOSE i \in ends : \A j \in ends : i <= j) - 1)>>

extract_host(token) ==
    IF token = <<>> THEN <<>>
    ELSE LET t1 == IF contains(token, <<":", "/", "/">>)
                   THEN split(token, <<":", "/", "/">>, 1)[2] ELSE token
             t2 == IF startswith(t1, <<"/", "/">>) THEN From(t1, 3) ELSE t1
             t3 == split(t2, <<"/">>, 1)[1]
             t4 == split(t3, <<":">>, 1)[1]
         IN stripc(strip(t4), {"."})

RECURSIVE domain_end(_, _)
\* the inner while of find_email_domain: the end of the run of alphanumerics,
\* dots and hyphens that starts at position e (1-based, exclusive end)
domain_end(ln, e) ==
    IF e <= Len(ln) /\ (isalnum(ln[e]) \/ ln[e] \in {".", "-"}) THEN domain_end(ln, e + 1) ELSE e

RECURSIVE find_email_domain_from(_, _, _)
find_email_domain_from(ln, idx, dset) ==
    LET at == find(ln, <<"@">>, idx)
        end == domain_end(ln, at + 1)
        matched == match_domain(SubSeq(ln, at + 1, end - 1), dset)
    IN IF at = 0 THEN None
       ELSE IF Truthy(matched) THEN matched
       ELSE find_email_domain_from(ln, end, dset)

find_email_domain(ln, dset) == find_email_domain_from(ln, 1, dset)

\* lines 134-137 tried before lines 130-133: the host rule ahead of the IP rule
match_line_host_first(line_raw, ipl, dset, skip, eonly) ==
    LET tokens == first_tokens(line_raw)
        m1 == IF dset # {} /\ ~eonly
              THEN IF line_raw # <<>> /\ tokens = <<>> THEN IndexError
                   ELSE match_domain(extract_host(IF line_raw # <<>> THEN tokens[1] ELSE <<>>), dset)
              ELSE None
        m2 == IF ~Truthy(m1) /\ ipl # <<>> THEN ip_regex_search(line_raw, ipl) ELSE m1
        m3 == IF ~Truthy(m2) /\ dset # {} /\ ~skip /\ contains(line_raw, <<"@">>)
              THEN find_email_domain(line_raw, dset) ELSE m2
    IN IF m1 = IndexError THEN IndexError ELSE m3

\* lines 129-139: matched for one line, or IndexError when line 135 raises
match_line(line_raw, ipl, dset, skip, eonly) ==
    LET m1 == IF ipl # <<>> THEN ip_regex_search(line_raw, ipl) ELSE None
        tokens == first_tokens(line_raw)
        raises == ~Truthy(m1) /\ dset # {} /\ ~eonly /\ line_raw # <<>> /\ tokens = <<>>
        m2 == IF ~Truthy(m1) /\ dset # {} /\ ~eonly
              THEN match_domain(extract_host(IF line_raw # <<>> THEN tokens[1] ELSE <<>>), dset)
              ELSE m1
        m3 == IF ~Truthy(m2) /\ dset # {} /\ ~skip /\ contains(line_raw, <<"@">>)
              THEN find_email_domain(line_raw, dset) ELSE m2
    IN IF raises THEN IndexError ELSE m3

\* line 141: f"{matched}\t{path}\t{line_raw}\n"
format_match(matched, path, line_raw) ==
    matched \o <<"\t">> \o path \o <<"\t">> \o line_raw \o <<"\n">>

\* lines 128-141 for one line of the file at path: the buffer afterwards, or
\* IndexError
scan_line(buf, ln, path, ipl, dset, skip, eonly) ==
    LET line_raw == rstrip(ln, {"\n"})
        matched == match_line(line_raw, ipl, dset, skip, eonly)
    IN IF matched = IndexError THEN IndexError
       ELSE IF Truthy(matched) THEN Append(buf, format_match(matched, path, line_raw))
       ELSE buf

\* the lines of the model: at most MaxLineFrags pieces and the newline
MaxLineFrags == 3

LineFrags == { <<"1", ".", "1", ".", "1", ".", "1">>, <<"a", ".", "b">>, <<" ">>, <<"@">>,
               <<"c", ".">>, <<"/">>, <<"x">>, <<":", "/", "/">> }

Lines == {Concat(pieces) \o <<"\n">> : pieces \in SeqUpTo(LineFrags, MaxLineFrags)}

\* the path of the file the line loop reads
LinePath == <<"f">>

InitLine ==
    /\ line \in Lines
    /\ line_buffer = <<>>
    /\ line_pc = "read"
    /\ \E wl \in WatchlistFiles :
          /\ domain_set = ToSet(load_patterns(wl).domains)
          /\ ips = load_patterns(wl).ips
          /\ list_file = wl
    /\ load_pc = "searching"
    /\ skip_email \in BOOLEAN
    /\ email_only \in BOOLEAN
    /\ IdleMatchDomain
    /\ IdleDedup
    /\ IdleScan
    /\ IdleQuery

\* one pass of the loop body, up to the append
ScanLine ==
    /\ line_pc = "read"
    /\ LET r == scan_line(line_buffer, line, LinePath, ips, domain_set, skip_email, email_only)
       IN IF r = IndexError
          THEN line_pc' = "raised" /\ UNCHANGED line_buffer
          ELSE line_pc' = "done" /\ line_buffer' = r
    /\ UNCHANGED <<line, listVars, mdVars, dedupVars, scanVars, queryVars>>

NextLine == ScanLine

SpecLine == InitLine /\ [][NextLine]_vars

\* the three rules of a line, each stated on its own
LineRaw == rstrip(line, {"\n"})

IpRule == IF ips # <<>> THEN ip_regex_search(LineRaw, ips) ELSE None

HostRule ==
    IF domain_set # {} /\ ~email_only /\ first_tokens(LineRaw) # <<>>
    THEN match_domain(extract_host(first_tokens(LineRaw)[1]), domain_set)
    ELSE None

EmailRule ==
    IF domain_set # {} /\ ~skip_email /\ contains(LineRaw, <<"@">>)
    THEN find_email_domain(LineRaw, domain_set)
    ELSE None

\* C6: the rules are tried in the order IP, host of the first token, email
\* domains; the first that succeeds gives matchedPattern and a line gives at
\* most one record: with a listed IP in the line the record is under an IP of
\* the list that occurs in the line, whatever its host and email domains are.
C6_FirstRuleWins ==
    line_pc \in {"done", "raised"} =>
        LET first == IF Truthy(IpRule) THEN IpRule
                     ELSE IF Truthy(HostRule) THEN HostRule
                     ELSE EmailRule
        IN /\ Len(line_buffer) <= 1
           /\ line_pc = "raised" => ~Truthy(IpRule) /\ line_buffer = <<>>
           /\ line_pc = "done" =>
                 line_buffer = IF Truthy(first)
                               THEN <<format_match(first, LinePath, LineRaw)>>
                               ELSE <<>>
           /\ (line_pc = "done" /\ Truthy(IpRule)) =>
                 \E k \in 1..Len(ips) :
                     /\ contains(LineRaw, ips[k])
                     /\ line_buffer = <<format_match(ips[k], LinePath, LineRaw)>>

\* a line whose host and whose IP are both listed has been reported under the IP
C6_Witness ==
    /\ line_pc = "done"
    /\ Truthy(IpRule) /\ Truthy(HostRule)
    /\ line_buffer = <<format_match(IpRule, LinePath, LineRaw)>>
    /\ line_buffer # <<format_match(HostRule, LinePath, LineRaw)>>

-----------------------------------------------------------------------------
(* dedup_output *)

\* a key made of the whole line, the source file included
dedup_key_whole_line(ln) == ln

\* lines 186-190: the key of a line of the match file
dedup_key(ln) ==
    LET parts == split(rstrip(ln, {"\n"}), <<"\t">>, 2)
    IN IF Len(parts) = 3 THEN parts[1] \o <<"\t">> \o parts[3] ELSE ln

RECURSIVE dedup_lines_forgetful(_, _)
\* a loop that takes a key out of seen when it skips a line
dedup_lines_forgetful(source, seen) ==
    IF source = <<>> THEN <<>>
    ELSE LET key == dedup_key(Head(source))
         IN IF key \in seen
            THEN dedup_lines_forgetful(Tail(source), seen \ {key})
            ELSE <<Head(source)>> \o dedup_lines_forgetful(Tail(source), seen \cup {key})

RECURSIVE dedup_lines(_, _)
\* the loop of lines 185-194: the lines written to the target
dedup_lines(source, seen) ==
    IF source = <<>> THEN <<>>
    ELSE LET key == dedup_key(Head(source))
         IN IF key \in seen
            THEN dedup_lines(Tail(source), seen)
            ELSE <<Head(source)>> \o dedup_lines(Tail(source), seen \cup {key})

\* dedup_output(output_path): the file after temp_path.replace(output_path)
dedup_output(file) == dedup_lines(file, {})

\* the match files of the model: at most MaxMatchLines matches, the source
\* files named without a tab
MaxMatchLines == 3

\* how often dedup_output is applied to a file
MaxDedupRuns == 2

MatchedPatterns == { <<"a", ".", "b">>, <<"b">> }

SourcePaths == { <<"f">>, <<"d", "/", "g">> }

RawLines == { <<"a", ".", "b", " ", "x">>, <<"a", ".", "b", "\t", "x">>, <<"c", ".", "b", "\t", "x", "\t">> }

MatchRecords == [matchedPattern : MatchedPatterns, sourceFile : SourcePaths, rawLine : RawLines]

FormatRecords(recs) ==
    [i \in 1..Len(recs) |-> format_match(recs[i].matchedPattern, recs[i].sourceFile, recs[i].rawLine)]

InitDedup ==
    /\ match_records \in SeqUpTo(MatchRecords, MaxMatchLines)
    /\ output = FormatRecords(match_records)
    /\ dedup_runs = 0
    /\ dedup_first = <<>>
    /\ IdleList
    /\ IdleMatchDomain
    /\ IdleLine
    /\ IdleScan
    /\ IdleQuery

DedupOutput ==
    /\ dedup_runs < MaxDedupRuns
    /\ output' = dedup_output(output)
    /\ dedup_runs' = dedup_runs + 1
    /\ dedup_first' = IF dedup_runs = 0 THEN dedup_output(output) ELSE dedup_first
    /\ UNCHANGED <<match_records, listVars, mdVars, lineVars, scanVars, queryVars>>

NextDedup == DedupOutput

SpecDedup == InitDedup /\ [][NextDedup]_vars

\* the key of a match: its pattern and its raw line, not its source file
RecordKey(r) == <<r.matchedPattern, r.rawLine>>

\* the positions of the matches that are the first of their key
FirstOfKey(recs) ==
    {i \in 1..Len(recs) : \A j \in 1..(i - 1) : RecordKey(recs[j]) # RecordKey(recs[i])}

RECURSIVE Keep(_, _, _)
\* the subsequence of s at the positions in keep, from position i on
Keep(s, keep, i) ==
    IF i > Len(s) THEN <<>>
    ELSE (IF i \in keep THEN <<s[i]>> ELSE <<>>) \o Keep(s, keep, i + 1)

C8_DedupIdempotent ==
    dedup_runs = 2 => output = dedup_first

\* a file that lost a duplicate in the first run has been through the second
C8_Witness ==
    /\ dedup_runs = 2
    /\ Len(output) < Len(match_records)
    /\ Len(output) >= 2

-----------------------------------------------------------------------------
(* search_files: the worker pool, the two locks, the progress counter *)

\* buffer_limit of process_file (1000 in the code), scaled to the model's files
buffer_limit == 2

\* progress["step_local"] (4 MiB in the code), scaled to the model's files
step_local == 8

\* progress["report_step"] (50 MiB in the code), scaled to the model's files
report_step == 12

\* the most threads --workers is given
MaxWorkers == 2

\* the UTF-8 length of a character of the model's alphabet
ByteLen(c) == IF c \in WideLetters THEN 2 ELSE 1

RECURSIVE line_bytes(_)
line_bytes(ln) == IF ln = <<>> THEN 0 ELSE ByteLen(Head(ln)) + line_bytes(Tail(ln))

RECURSIVE st_size(_)
\* path.stat().st_size of a file given as its lines
st_size(content) == IF content = <<>> THEN 0 ELSE line_bytes(Head(content)) + st_size(Tail(content))

\* the paths of the files under root, in sorted order
PathNames == << <<"f">>, <<"g">>, <<"h">> >>

\* the files left in path order: line 210, the sort by size, dropped
FilesInPathOrder(dir) == [k \in 1..Len(dir) |-> k]

\* line 210: files.sort(key=size, reverse=True), a stable sort
SortedBySize(dir) ==
    LET n == Len(dir)
        Before(i, j) == st_size(dir[i]) > st_size(dir[j]) \/ (st_size(dir[i]) = st_size(dir[j]) /\ i < j)
        Rank(i) == 1 + Cardinality({j \in 1..n : Before(j, i)})
    IN [k \in 1..n |-> CHOOSE i \in 1..n : Rank(i) = k]

RECURSIVE total_size_of(_)
\* line 211
total_size_of(dir) == IF dir = <<>> THEN 0 ELSE st_size(Head(dir)) + total_size_of(Tail(dir))

\* the directories of the model: the lines of each file, in path order
L_abx == <<"a", ".", "b", " ", "x", "\n">>
L_aby == <<"a", ".", "b", " ", "y", "\n">>
L_cy == <<"c", " ", "y", "\n">>
L_wide == <<"e_acute", "@", "a", ".", "b", "\n">>
L_blank == <<" ", "\n">>
L_ip == <<"1", ".", "1", ".", "1", ".", "1", " ", "a", ".", "b", "\n">>

Directories ==
    { << <<L_abx>>, <<L_abx, L_cy>> >>,
      << <<L_abx, L_aby, L_abx>>, <<L_wide>> >>,
      << <<L_blank>>, <<L_abx>> >>,
      << <<L_abx>>, <<L_cy>>, <<>> >>,
      << <<L_ip, L_cy>> >>,
      << <<L_abx, L_blank>> >> }

\* the list file of the scans of the model
ScanList == << <<"a", ".", "b">>, <<"1", ".", "1", ".", "1", ".", "1">> >>

NewTask ==
    [pc |-> "unsubmitted", pos |-> 0, buffer |-> <<>>, local_done |-> 0,
     processed_bytes |-> 0, wpos |-> 0, loaded |-> 0, eof |-> FALSE]

Init ==
    /\ root \in Directories
    /\ workers \in 1..MaxWorkers
    /\ files = SortedBySize(root)
    /\ tasks = [t \in 1..Len(root) |-> NewTask]
    /\ output_lock = 0
    /\ progress_lock = 0
    /\ progress = [total_done |-> 0, total_size |-> total_size_of(root), last_report |-> 0]
    /\ main_pc = "submit"
    /\ submitted = 0
    /\ yielded = {}
    /\ done_files = 0
    /\ snapshot = 0
    /\ output = <<>>
    /\ dedup_runs = 0
    /\ match_records = <<>>
    /\ dedup_first = <<>>
    /\ domain_set = ToSet(load_patterns(ScanList).domains)
    /\ ips = load_patterns(ScanList).ips
    /\ list_file = ScanList
    /\ load_pc = "searching"
    /\ skip_email = FALSE
    /\ email_only = FALSE
    /\ IdleMatchDomain
    /\ IdleLine
    /\ IdleQuery

Task == 1..Len(tasks)

Finished(t) == tasks[t].pc \in {"done", "raised"}

Running(t) == tasks[t].pc \notin {"unsubmitted", "queued", "done", "raised"}

inertVars == <<mdVars, lineVars, listVars, queryVars, root, workers, files, match_records>>

\* lines 230-244: executor.submit(process_file, path, ...) for the next path
Submit ==
    /\ main_pc = "submit"
    /\ submitted < Len(files)
    /\ tasks' = [tasks EXCEPT ![submitted + 1].pc = "queued"]
    /\ submitted' = submitted + 1
    /\ main_pc' = IF submitted + 1 = Len(files) THEN "wait" ELSE "submit"
    /\ UNCHANGED <<inertVars, output, dedup_runs, dedup_first, output_lock, progress_lock,
                   progress, yielded, done_files, snapshot>>

\* a pool thread takes the oldest queued call; at most `workers` threads exist
Start(t) ==
    /\ tasks[t].pc = "queued"
    /\ \A u \in Task : u < t => tasks[u].pc # "queued"
    /\ Cardinality({u \in Task : Running(u)}) < workers
    /\ tasks' = [tasks EXCEPT ![t].pc = "loop"]
    /\ UNCHANGED <<inertVars, output, dedup_runs, dedup_first, output_lock, progress_lock,
                   progress, main_pc, submitted, yielded, done_files, snapshot>>

\* where the loop body goes after line 145: the progress flush or the next line
AfterAppend(done) == IF done >= step_local THEN "prog_wait" ELSE "loop"

\* lines 124-146 for the next line of the file
ReadLine(t) ==
    /\ tasks[t].pc = "loop"
    /\ tasks[t].pos < Len(root[files[t]])
    /\ LET me == tasks[t]
           ln == root[files[t]][me.pos + 1]
           r == scan_line(me.buffer, ln, PathNames[files[t]], ips, domain_set, skip_email, email_only)
           counted == [me EXCEPT !.pos = me.pos + 1,
                                 !.processed_bytes = me.processed_bytes + Len(ln),
                                 !.local_done = me.local_done + Len(ln)]
       IN tasks' = [tasks EXCEPT ![t] =
              IF r = IndexError THEN [counted EXCEPT !.pc = "raised"]
              ELSE IF Len(r) > Len(me.buffer) /\ Len(r) >= buffer_limit
              THEN [counted EXCEPT !.buffer = r, !.pc = "flush_wait"]
              ELSE [counted EXCEPT !.buffer = r, !.pc = AfterAppend(counted.local_done)]]
    /\ UNCHANGED <<inertVars, output, dedup_runs, dedup_first, output_lock, progress_lock,
                   progress, main_pc, submitted, yielded, done_files, snapshot>>

\* the loop ends: lines 160 and 163 choose what is left to flush
EndOfFile(t) ==
    /\ tasks[t].pc = "loop"
    /\ tasks[t].pos = Len(root[files[t]])
    /\ tasks' = [tasks EXCEPT ![t].eof = TRUE,
                              ![t].pc = IF tasks[t].buffer # <<>> THEN "flush_wait"
                                        ELSE IF tasks[t].local_done # 0 THEN "prog_wait"
                                        ELSE "done"]
    /\ UNCHANGED <<inertVars, output, dedup_runs, dedup_first, output_lock, progress_lock,
                   progress, main_pc, submitted, yielded, done_files, snapshot>>

\* lines 143 and 161: with output_lock
AcquireOutput(t) ==
    /\ tasks[t].pc = "flush_wait"
    /\ output_lock = 0
    /\ output_lock' = t
    /\ tasks' = [tasks EXCEPT ![t].pc = "flush_write", ![t].wpos = 0]
    /\ UNCHANGED <<inertVars, output, dedup_runs, dedup_first, progress_lock,
                   progress, main_pc, submitted, yielded, done_files, snapshot>>

\* lines 144 and 162: output.writelines(buffer), one line of it
WriteLine(t) ==
    /\ tasks[t].pc = "flush_write"
    /\ tasks[t].wpos < Len(tasks[t].buffer)
    /\ output' = Append(output, tasks[t].buffer[tasks[t].wpos + 1])
    /\ tasks' = [tasks EXCEPT ![t].wpos = tasks[t].wpos + 1]
    /\ UNCHANGED <<inertVars, dedup_runs, dedup_first, output_lock, progress_lock,
                   progress, main_pc, submitted, yielded, done_files, snapshot>>

\* the end of the with block; in the loop, line 145 clears the buffer
ReleaseOutput(t) ==
    /\ tasks[t].pc = "flush_write"
    /\ tasks[t].wpos = Len(tasks[t].buffer)
    /\ output_lock' = 0
    /\ tasks' = [tasks EXCEPT ![t] =
          IF tasks[t].eof
          THEN [tasks[t] EXCEPT !.pc = IF tasks[t].local_done # 0 THEN "prog_wait" ELSE "done"]
          ELSE [tasks[t] EXCEPT !.buffer = <<>>, !.pc = AfterAppend(tasks[t].local_done)]]
    /\ UNCHANGED <<inertVars, output, dedup_runs, dedup_first, progress_lock,
                   progress, main_pc, submitted, yielded, done_files, snapshot>>

\* lines 147 and 164: with progress_lock
AcquireProgress(t) ==
    /\ tasks[t].pc = "prog_wait"
    /\ progress_lock = 0
    /\ progress_lock' = t
    /\ tasks' = [tasks EXCEPT ![t].pc = "prog_load"]
    /\ UNCHANGED <<inertVars, output, dedup_runs, dedup_first, output_lock,
                   progress, main_pc, submitted, yielded, done_files, snapshot>>

\* lines 148 and 165, the read of progress["total_done"] += local_done
LoadTotal(t) ==
    /\ tasks[t].pc = "prog_load"
    /\ tasks' = [tasks EXCEPT ![t].loaded = progress.total_done, ![t].pc = "prog_store"]
    /\ UNCHANGED <<inertVars, output, dedup_runs, dedup_first, output_lock, progress_lock,
                   progress, main_pc, submitted, yielded, done_files, snapshot>>

\* lines 148-159 and 165-175: the write of the sum, the report, the release;
\* in the loop, line 159 resets local_done
StoreTotal(t) ==
    /\ tasks[t].pc = "prog_store"
    /\ LET total == tasks[t].loaded + tasks[t].local_done
       IN progress' = [progress EXCEPT
                          !.total_done = total,
                          !.last_report = IF total - progress.last_report >= report_step
                                          THEN total ELSE progress.last_report]
    /\ progress_lock' = 0
    /\ tasks' = [tasks EXCEPT ![t] =
          IF tasks[t].eof
          THEN [tasks[t] EXCEPT !.pc = "done"]
          ELSE [tasks[t] EXCEPT !.local_done = 0, !.pc = "loop"]]
    /\ UNCHANGED <<inertVars, output, dedup_runs, dedup_first, output_lock,
                   main_pc, submitted, yielded, done_files, snapshot>>

\* lines 246-249: as_completed yields a finished future; result() re-raises
Yield(t) ==
    /\ main_pc = "wait"
    /\ t \notin yielded
    /\ Finished(t)
    /\ yielded' = yielded \cup {t}
    /\ IF tasks[t].pc = "raised"
       THEN main_pc' = "unwinding" /\ UNCHANGED done_files
       ELSE main_pc' = "snap_wait" /\ done_files' = done_files + 1
    /\ UNCHANGED <<inertVars, output, dedup_runs, dedup_first, output_lock, progress_lock,
                   progress, tasks, submitted, snapshot>>

\* line 255: with progress_lock, in the main thread
MainAcquire ==
    /\ main_pc = "snap_wait"
    /\ progress_lock = 0
    /\ progress_lock' = -1
    /\ main_pc' = "snap"
    /\ UNCHANGED <<inertVars, output, dedup_runs, dedup_first, output_lock,
                   progress, tasks, submitted, yielded, done_files, snapshot>>

\* lines 256-260
MainSnapshot ==
    /\ main_pc = "snap"
    /\ snapshot' = progress.total_done
    /\ progress_lock' = 0
    /\ main_pc' = "wait"
    /\ UNCHANGED <<inertVars, output, dedup_runs, dedup_first, output_lock,
                   progress, tasks, submitted, yielded, done_files>>

\* main going on to dedup_output without joining the pool: neither the loop
\* over as_completed nor the end of the with blocks waits for the calls
ShutdownWithoutJoin ==
    /\ main_pc = "wait"
    /\ main_pc' = "dedup"
    /\ UNCHANGED <<inertVars, output, dedup_runs, dedup_first, output_lock, progress_lock,
                   progress, tasks, submitted, yielded, done_files, snapshot>>

\* the with blocks of lines 229 and 217 end: the pool is joined, the file closed
Shutdown ==
    /\ main_pc = "wait"
    /\ yielded = Task
    /\ \A t \in Task : Finished(t)
    /\ main_pc' = "dedup"
    /\ UNCHANGED <<inertVars, output, dedup_runs, dedup_first, output_lock, progress_lock,
                   progress, tasks, submitted, yielded, done_files, snapshot>>

\* the same with blocks left by the exception of line 248: the pool still runs
\* every submitted call to its end, then search_files is left without dedup
Unwind ==
    /\ main_pc = "unwinding"
    /\ \A t \in Task : Finished(t)
    /\ main_pc' = "failed"
    /\ UNCHANGED <<inertVars, output, dedup_runs, dedup_first, output_lock, progress_lock,
                   progress, tasks, submitted, yielded, done_files, snapshot>>

\* line 266
Dedup ==
    /\ main_pc = "dedup"
    /\ output' = dedup_output(output)
    /\ dedup_runs' = dedup_runs + 1
    /\ dedup_first' = dedup_output(output)
    /\ main_pc' = "finished"
    /\ UNCHANGED <<inertVars, output_lock, progress_lock,
                   progress, tasks, submitted, yielded, done_files, snapshot>>

Next ==
    \/ Submit
    \/ \E t \in Task : Start(t)
    \/ \E t \in Task : ReadLine(t)
    \/ \E t \in Task : EndOfFile(t)
    \/ \E t \in Task : AcquireOutput(t)
    \/ \E t \in Task : WriteLine(t)
    \/ \E t \in Task : ReleaseOutput(t)
    \/ \E t \in Task : AcquireProgress(t)
    \/ \E t \in Task : LoadTotal(t)
    \/ \E t \in Task : StoreTotal(t)
    \/ \E t \in Task : Yield(t)
    \/ MainAcquire
    \/ MainSnapshot
    \/ Shutdown
    \/ Unwind
    \/ Dedup

Spec == Init /\ [][Next]_vars

\* some thread can take a step: the guards of the actions of Next
CanStep ==
    \/ main_pc = "submit" /\ submitted < Len(files)
    \/ \E t \in Task :
          /\ tasks[t].pc = "queued"
          /\ \A u \in Task : u < t => tasks[u].pc # "queued"
          /\ Cardinality({u \in Task : Running(u)}) < workers
    \/ \E t \in Task : tasks[t].pc \in {"loop", "flush_write", "prog_load", "prog_store"}
    \/ \E t \in Task : tasks[t].pc = "flush_wait" /\ output_lock = 0
    \/ \E t \in Task : tasks[t].pc = "prog_wait" /\ progress_lock = 0
    \/ main_pc = "wait" /\ \E t \in Task : t \notin yielded /\ Finished(t)
    \/ main_pc = "wait" /\ yielded = Task /\ \A t \in Task : Finished(t)
    \/ main_pc = "snap_wait" /\ progress_lock = 0
    \/ main_pc = "snap"
    \/ main_pc = "unwinding" /\ \A t \in Task : Finished(t)
    \/ main_pc = "dedup"

\* the same runs under a scheduler that lets some thread that can step do so:
\* weak fairness of Next, its enabling condition written out as CanStep
FairSpec == Init /\ [][Next]_vars /\ ([]<>~CanStep \/ []<><<Next>>_vars)

RECURSIVE file_matches(_, _, _)
\* the match lines one process_file call writes for a file, in line order, or
\* IndexError
file_matches(lines, path, buf) ==
    IF lines = <<>> THEN buf
    ELSE LET r == scan_line(buf, Head(lines), path, ips, domain_set, skip_email, email_only)
         IN IF r = IndexError THEN IndexError ELSE file_matches(Tail(lines), path, r)

RECURSIVE sequential_output(_)
\* the match file a pool of one thread writes: the calls run one after the
\* other in the order of files, from position k on
sequential_output(k) ==
    IF k > Len(files) THEN <<>>
    ELSE LET mine == file_matches(root[files[k]], PathNames[files[k]], <<>>)
             rest == sequential_output(k + 1)
         IN IF mine = IndexError \/ rest = IndexError THEN IndexError ELSE mine \o rest

\* C1: for a fixed file set and watchlist the set of matches after
\* dedup_output is the one the scan with one worker gives, for every number of
\* workers and every interleaving of the flushes.
C1_SameMatchesForAnyWorkers ==
    main_pc = "finished" => ToSet(output) = ToSet(dedup_output(sequential_output(1)))

\* with one worker the match file is the sequential one, line for line
OneWorkerIsSequential ==
    (main_pc = "finished" /\ workers = 1) => output = dedup_output(sequential_output(1))

\* whatever the workers, the keys (matchedPattern, rawLine) left are the same
SameKeysForAnyWorkers ==
    main_pc = "finished" =>
        {dedup_key(ln) : ln \in ToSet(output)}
            = {dedup_key(ln) : ln \in ToSet(dedup_output(sequential_output(1)))}

\* C9: after a full scan progress["total_done"] is the sum of the sizes of the
\* files scanned, for every number of workers and every interleaving.
C9_TotalDoneIsTotalSize ==
    main_pc = "finished" => progress.total_done = progress.total_size

RECURSIVE chars_of(_)
\* the characters process_file reads from a file
chars_of(content) == IF content = <<>> THEN 0 ELSE Len(Head(content)) + chars_of(Tail(content))

\* no flush of a worker's count is lost or doubled: the counter ends at the
\* number of characters read
TotalDoneIsCharsRead ==
    main_pc = "finished" =>
        progress.total_done = chars_of(Concat([k \in 1..Len(root) |-> root[k]]))

-----------------------------------------------------------------------------
(* app.py: the predicates.  A WHERE clause is the list of its OR-ed atoms,   *)
(* each the SQL text of the code with its arguments; the empty list is None. *)
(* A Python int is the list of its base-256 digits, most significant first,  *)
(* without leading zeros.                                                    *)

Atom(sql, args) == [sql |-> sql, args |-> args]

DigitValue ==
    [c \in Digits |->
        CASE c = "0" -> 0 [] c = "1" -> 1 [] c = "2" -> 2 [] c = "3" -> 3 [] c = "4" -> 4
          [] c = "5" -> 5 [] c = "6" -> 6 [] c = "7" -> 7 [] c = "8" -> 8 [] c = "9" -> 9]

HexDigits == Digits \cup {"a", "b", "c", "d", "e", "f", "A", "B", "C", "D", "E", "F"}

HexValue(c) ==
    IF c \in Digits THEN DigitValue[c]
    ELSE CASE c \in {"a", "A"} -> 10 [] c \in {"b", "B"} -> 11 [] c \in {"c", "C"} -> 12
           [] c \in {"d", "D"} -> 13 [] c \in {"e", "E"} -> 14 [] c \in {"f", "F"} -> 15

RECURSIVE int_of(_, _)
\* int(s, base) of a string of digits of that base
int_of(s, base) ==
    IF s = <<>> THEN 0 ELSE int_of(SubSeq(s, 1, Len(s) - 1), base) * base + HexValue(s[Len(s)])

\* str.isdigit() on the ASCII strings of the model
isdigit(s) == s # <<>> /\ \A i \in 1..Len(s) : s[i] \in Digits

\* what a parser gives for a text it rejects
Invalid == <<-1>>

\* ipaddress.IPv4Address._parse_octet on each of the four parts
ipv4_octets_of(parts) ==
    LET Good(o) == /\ isdigit(o)
                   /\ Len(o) <= 3
                   /\ ~(o # <<"0">> /\ o[1] = "0")
                   /\ int_of(o, 10) <= 255
    IN IF Len(parts) = 4 /\ \A i \in 1..4 : Good(parts[i])
       THEN [i \in 1..4 |-> int_of(parts[i], 10)]
       ELSE Invalid

\* ipaddress.IPv4Address._ip_int_from_string: the four octets of the text
ipv4_octets(s) == ipv4_octets_of(split(s, <<".">>, -1))

\* byte k of the netmask of a prefix length
MaskOctet(prefixlen, k) ==
    LET ones == IF prefixlen - 8 * (k - 1) >= 8 THEN 8
                ELSE IF prefixlen - 8 * (k - 1) <= 0 THEN 0
                ELSE prefixlen - 8 * (k - 1)
    IN 256 - 2 ^ (8 - ones)

\* ipaddress._prefix_from_prefix_string: -1 for a NetmaskValueError
prefix_from_prefix_string(m, maxlen) ==
    IF isdigit(m) /\ int_of(m, 10) <= maxlen THEN int_of(m, 10) ELSE -1

\* ipaddress._prefix_from_ip_int on a netmask, else on its complement (a hostmask)
prefix_from_mask_octets(o) ==
    LET nets == {pl \in 0..32 : \A k \in 1..4 : o[k] = MaskOctet(pl, k)}
        hosts == {pl \in 0..32 : \A k \in 1..4 : 255 - o[k] = MaskOctet(pl, k)}
    IN IF o = Invalid THEN -1
       ELSE IF nets # {} THEN CHOOSE pl \in nets : TRUE
       ELSE IF hosts # {} THEN CHOOSE pl \in hosts : TRUE
       ELSE -1

\* ipaddress._prefix_from_ip_string: a netmask or a hostmask in dotted form
prefix_from_ip_string(m) == prefix_from_mask_octets(ipv4_octets(m))

\* IPv4Network._make_netmask of the text after the slash
ipv4_prefixlen(m) ==
    IF prefix_from_prefix_string(m, 32) # -1 THEN prefix_from_prefix_string(m, 32)
    ELSE prefix_from_ip_string(m)

\* ipaddress.IPv6Address._parse_hextet: -1 for a rejected group
parse_hextet(h) ==
    IF h # <<>> /\ Len(h) <= 4 /\ \A i \in 1..Len(h) : h[i] \in HexDigits
    THEN int_of(h, 16) ELSE -1

\* ipaddress.IPv6Address._ip_int_from_string after the split on ":": parts0 are
\* the parts, v4 the octets of the last part where it holds a "."
ipv6_hextets_of(s, parts0, hasV4, v4) ==
    LET front == IF hasV4 THEN SubSeq(parts0, 1, Len(parts0) - 1) ELSE parts0
        n == IF hasV4 THEN Len(parts0) + 1 ELSE Len(parts0)
        Empty(i) == i <= Len(front) /\ front[i] = <<>>
        Value(i) == IF i <= Len(front) THEN parse_hextet(front[i])
                    ELSE IF i = Len(front) + 1 THEN v4[1] * 256 + v4[2]
                    ELSE v4[3] * 256 + v4[4]
        skips == {i \in 2..(n - 1) : Empty(i)}
        skip == CHOOSE i \in skips : TRUE
        hi == IF skips = {} THEN 8 ELSE IF Empty(1) THEN skip - 2 ELSE skip - 1
        lo == IF skips = {} THEN 0 ELSE IF Empty(n) THEN n - skip - 1 ELSE n - skip
        shapeOk == IF skips = {}
                   THEN n = 8 /\ ~Empty(1) /\ ~Empty(n)
                   ELSE /\ Cardinality(skips) = 1
                        /\ (Empty(1) => hi = 0)
                        /\ (Empty(n) => lo = 0)
                        /\ 8 - (hi + lo) >= 1
    IN IF s = <<>> \/ Len(parts0) < 3 THEN Invalid
       ELSE IF hasV4 /\ v4 = Invalid THEN Invalid
       ELSE IF n > 9 \/ ~shapeOk THEN Invalid
       ELSE IF \E i \in (1..hi) \cup ((n - lo + 1)..n) : Value(i) = -1 THEN Invalid
       ELSE [k \in 1..8 |-> IF k <= hi THEN Value(k)
                            ELSE IF k > 8 - lo THEN Value(n - (8 - k))
                            ELSE 0]

\* the last part of an address split on ":"
last_part(s) == split(s, <<":">>, -1)[Len(split(s, <<":">>, -1))]

\* ipaddress.IPv6Address._ip_int_from_string: the eight groups of the address
ipv6_hextets(s) ==
    ipv6_hextets_of(s, split(s, <<":">>, -1), contains(last_part(s), <<".">>),
                    ipv4_octets(last_part(s)))

\* the bytes of an address of eight groups
hextet_octets(h) == [k \in 1..16 |-> IF k % 2 = 1 THEN h[(k + 1) \div 2] \div 256 ELSE h[k \div 2] % 256]

\* int(address): the digits without the leading zeros
int_of_octets(o) == lstrip(o, {0})

\* network_address of the bytes o under a prefix length
network_octets(o, prefixlen) ==
    [k \in 1..Len(o) |-> o[k] - (o[k] % (256 - MaskOctet(prefixlen, k)))]

\* a broadcast address that fills whole bytes: every byte the prefix does not
\* cover in full becomes 255
broadcast_octets_whole_bytes(o, prefixlen) ==
    [k \in 1..Len(o) |-> IF 8 * k <= prefixlen THEN o[k] ELSE 255]

\* broadcast_address of the bytes o under a prefix length
broadcast_octets(o, prefixlen) ==
    [k \in 1..Len(o) |-> (o[k] - (o[k] % (256 - MaskOctet(prefixlen, k)))) + (255 - MaskOctet(prefixlen, k))]

\* the network of an address and a prefix length, as lines 79-80 read it
network_of(o, prefixlen) ==
    [ok |-> TRUE,
     start |-> int_of_octets(network_octets(o, prefixlen)),
     end |-> int_of_octets(broadcast_octets(o, prefixlen))]

\* ip_network after the split on "/": o4 and p4 what IPv4Network reads, h6 and
\* p6 what IPv6Network reads
ip_network_of(parts, o4, p4, h6, p6) ==
    IF Len(parts) > 2 THEN [ok |-> FALSE]
    ELSE IF o4 # Invalid /\ p4 # -1 THEN network_of(o4, p4)
    ELSE IF h6 # Invalid /\ p6 # -1 THEN network_of(hextet_octets(h6), p6)
    ELSE [ok |-> FALSE]

\* the text after the slash, None without a slash
mask_part(value) == IF Len(split(value, <<"/">>, -1)) = 2 THEN split(value, <<"/">>, -1)[2] ELSE None

\* ipaddress.ip_network(value, strict=False): IPv4Network, else IPv6Network,
\* else ValueError (ok FALSE).  The texts of the model hold no "%" (an IPv6
\* scope id).
ip_network(value) ==
    ip_network_of(split(value, <<"/">>, -1),
                  ipv4_octets(split(value, <<"/">>, -1)[1]),
                  IF mask_part(value) = None THEN 32 ELSE ipv4_prefixlen(mask_part(value)),
                  ipv6_hextets(split(value, <<"/">>, -1)[1]),
                  IF mask_part(value) = None THEN 128 ELSE prefix_from_prefix_string(mask_part(value), 128))

\* ^\d{1,3}(\.\d{1,3}){lo,hi}$ of ip_prefix_clause
IsDottedDigits(s, lo, hi) ==
    Len(split(s, <<".">>, -1)) - 1 \in lo..hi
    /\ \A i \in 1..Len(split(s, <<".">>, -1)) : IsDigitGroup(split(s, <<".">>, -1)[i])

\* lines 79-81: the range clause of a network, None where ip_network raised
range_clause(network) ==
    IF ~network.ok THEN <<>>
    ELSE <<Atom("ip_to_int(domain_norm) BETWEEN ? AND ?", <<network.start, network.end>>)>>

\* a CIDR clause without the exact-match shortcut of mask 32 (lines 64-65 dropped)
cidr_clause_no_exact(value, ip, mask, quad, octs) ==
    IF quad /\ mask = <<"8">>
    THEN <<Atom("domain_norm LIKE ?", <<octs[1] \o <<".", "%">> >>)>>
    ELSE IF quad /\ mask = <<"1", "6">>
    THEN <<Atom("domain_norm LIKE ?", <<join(<<".">>, SubSeq(octs, 1, 2)) \o <<".", "%">> >>)>>
    ELSE IF quad /\ mask = <<"2", "4">>
    THEN <<Atom("domain_norm LIKE ?", <<join(<<".">>, SubSeq(octs, 1, 3)) \o <<".", "%">> >>)>>
    ELSE range_clause(ip_network(value))

\* a CIDR clause whose mask 16 keeps three octets (parts[:3] for parts[:2])
cidr_clause_third_octet(value, ip, mask, quad, octs) ==
    IF quad /\ mask = <<"3", "2">> THEN <<Atom("domain_norm = ?", <<ip>>)>>
    ELSE IF quad /\ mask = <<"8">>
    THEN <<Atom("domain_norm LIKE ?", <<octs[1] \o <<".", "%">> >>)>>
    ELSE IF quad /\ mask \in {<<"1", "6">>, <<"2", "4">>}
    THEN <<Atom("domain_norm LIKE ?", <<join(<<".">>, SubSeq(octs, 1, 3)) \o <<".", "%">> >>)>>
    ELSE range_clause(ip_network(value))

\* lines 62-81: ip, mask = value.split("/", 1); quad says that ip is a dotted quad
cidr_clause(value, ip, mask, quad, octs) ==
    IF quad /\ mask = <<"3", "2">> THEN <<Atom("domain_norm = ?", <<ip>>)>>
    ELSE IF quad /\ mask = <<"8">>
    THEN <<Atom("domain_norm LIKE ?", <<octs[1] \o <<".", "%">> >>)>>
    ELSE IF quad /\ mask = <<"1", "6">>
    THEN <<Atom("domain_norm LIKE ?", <<join(<<".">>, SubSeq(octs, 1, 2)) \o <<".", "%">> >>)>>
    ELSE IF quad /\ mask = <<"2", "4">>
    THEN <<Atom("domain_norm LIKE ?", <<join(<<".">>, SubSeq(octs, 1, 3)) \o <<".", "%">> >>)>>
    ELSE range_clause(ip_network(value))

\* ip_prefix_clause after value = value.strip().lower()
ip_prefix_clause_of(value) ==
    IF value = <<>> THEN <<>>
    ELSE IF endswith(value, <<".", "*">>) /\ IsDottedDigits(SubSeq(value, 1, Len(value) - 2), 0, 2)
    THEN <<Atom("domain_norm LIKE ?", <<SubSeq(value, 1, Len(value) - 2) \o <<".", "%">> >>)>>
    ELSE IF endswith(value, <<".">>) /\ IsDottedDigits(SubSeq(value, 1, Len(value) - 1), 0, 3)
    THEN <<Atom("domain_norm LIKE ?", <<value \o <<"%">> >>)>>
    ELSE IF contains(value, <<"/">>)
    THEN cidr_clause(value, split(value, <<"/">>, 1)[1], split(value, <<"/">>, 1)[2],
                     IsDottedDigits(split(value, <<"/">>, 1)[1], 3, 3),
                     split(split(value, <<"/">>, 1)[1], <<".">>, -1))
    ELSE IF IsDottedDigits(value, 3, 3)
    THEN <<Atom("domain_norm = ?", <<value>>)>>
    ELSE <<>>

\* ip_prefix_clause: the clause, <<>> for None
ip_prefix_clause(value0) == ip_prefix_clause_of(lower(strip(value0)))

\* a TLD test that takes a single character after the dot: {1,63} for {2,63}
tld_clause_one_char(value) ==
    IF /\ Len(value) \in 2..64
       /\ value[1] = "."
       /\ \A i \in 2..Len(value) : value[i] \in LowerLetters \cup Digits \cup {"-"}
    THEN <<Atom("domain_norm LIKE ?", <<(<<"%">> \o value)>>)>>
    ELSE <<>>

\* tld_clause after value = value.strip().lower()
tld_clause_of(value) ==
    IF value = <<>> \/ ~startswith(value, <<".">>) THEN <<>>
    ELSE IF Len(value) < 2 THEN <<>>
    ELSE IF ~(/\ Len(value) \in 3..64
              /\ \A i \in 2..Len(value) : value[i] \in LowerLetters \cup Digits \cup {"-"})
    THEN <<>>
    ELSE <<Atom("domain_norm LIKE ?", <<(<<"%">> \o value)>>)>>

\* tld_clause: the clause, <<>> for None
tld_clause(value0) == tld_clause_of(lower(strip(value0)))

\* normalize_email_domain after value = value.strip()
email_domain_of(value) == lower(IF startswith(value, <<"@">>) THEN Tail(value) ELSE value)

normalize_email_domain(value0) == email_domain_of(strip(value0))

\* urllib.parse.scheme_chars
SchemeChars == LowerLetters \cup UpperLetters \cup Digits \cup {"+", "-", "."}

\* urlsplit, the scheme: what is left of the url once a scheme before the
\* first ":" (at position colon, 0 for none) is taken off
after_scheme(text, colon) ==
    IF /\ colon > 1
       /\ text[1] \in LowerLetters \cup UpperLetters
       /\ \A k \in 1..(colon - 1) : text[k] \in SchemeChars
    THEN From(text, colon + 1) ELSE text

\* urlsplit and _splitnetloc: the netloc follows "//" up to the next "/", "?" or "#"
netloc_of(rest) ==
    LET stops == {i \in 3..Len(rest) : rest[i] \in {"/", "?", "#"}}
    IN IF ~startswith(rest, <<"/", "/">>) THEN <<>>
       ELSE IF stops = {} THEN From(rest, 3)
       ELSE SubSeq(rest, 3, (CHOOSE i \in stops : \A j \in stops : i <= j) - 1)

\* _hostinfo and hostname: what follows the last "@" of the netloc, up to the first ":"
host_of(netloc) ==
    LET ats == {i \in 1..Len(netloc) : netloc[i] = "@"}
    IN lower(split(IF ats = {} THEN netloc
                   ELSE From(netloc, (CHOOSE i \in ats : \A j \in ats : i >= j) + 1),
                   <<":">>, 1)[1])

\* urlsplit, its first lines: leading blanks are stripped, tabs and newlines removed
unsafe_removed(text) ==
    SelectSeq(lstrip(text, Whitespace), LAMBDA c : c \notin {"\t", "\r", "\n"})

\* urlparse(text).hostname or "".  The texts of the model hold no "[" or "]"
\* (an IPv6 literal host) and are lower-cased already, so that a "%" in the
\* host changes nothing.
hostname(text) ==
    host_of(netloc_of(after_scheme(unsafe_removed(text), find(unsafe_removed(text), <<":">>, 1))))

\* url_filters, line 33: candidate = value if "://" in value else "http://" + value
url_candidate(value) ==
    IF contains(value, <<":", "/", "/">>) THEN value
    ELSE <<"h", "t", "t", "p", ":", "/", "/">> \o value

\* url_filters, lines 39-49: the clauses for the value and its host
url_clauses(value, host) ==
    (IF host # <<>> THEN <<Atom("domain_norm = ?", <<lower(host)>>)>> ELSE <<>>)
    \o <<Atom("url_norm = ?", <<value>>)>>
    \o (IF contains(value, <<":", "/", "/">>) \/ contains(value, <<"/">>)
        THEN <<Atom("url_norm LIKE ?", <<rstrip(value, {"/"}) \o <<"%">> >>)>>
        ELSE <<>>)

url_filters(value0) ==
    url_clauses(lower(strip(value0)), hostname(url_candidate(lower(strip(value0)))))

\* the tests of lines 106-109 the other way round: "@" anywhere before "@" first
detect_mode_email_first(value, ip_clause, tld_value) ==
    IF value = <<>> THEN "None"
    ELSE IF ip_clause # <<>> THEN "ip"
    ELSE IF tld_value # <<>> THEN "tld"
    ELSE IF contains(value, <<"@">>) THEN "email"
    ELSE IF startswith(value, <<"@">>) THEN "email_domain"
    ELSE IF contains(value, <<":", "/", "/">>) \/ contains(value, <<"/">>) THEN "url"
    ELSE IF contains(value, <<".">>) THEN "url"
    ELSE "login"

\* detect_mode after value = value.strip(), given what ip_prefix_clause(value)
\* and tld_clause(value) return
detect_mode_of(value, ip_clause, tld_value) ==
    IF value = <<>> THEN "None"
    ELSE IF ip_clause # <<>> THEN "ip"
    ELSE IF tld_value # <<>> THEN "tld"
    ELSE IF startswith(value, <<"@">>) THEN "email_domain"
    ELSE IF contains(value, <<"@">>) THEN "email"
    ELSE IF contains(value, <<":", "/", "/">>) \/ contains(value, <<"/">>) THEN "url"
    ELSE IF contains(value, <<".">>) THEN "url"
    ELSE "login"

\* detect_mode: the mode, "None" for None
detect_mode(value0) ==
    detect_mode_of(strip(value0), ip_prefix_clause(strip(value0)), tld_clause(strip(value0)))

\* lines 129-137 and 146-154: the IP clause, else the TLD clause, else the URL clauses
url_clause(ip_clause, tld_value, filters) ==
    IF ip_clause # <<>> THEN ip_clause
    ELSE IF tld_value # <<>> THEN tld_value
    ELSE filters

\* lines 163-178: the clause for a q that is not empty, found its detect_mode
query_clause(qv, found, ip_clause, tld_value) ==
    IF found = "ip" /\ ip_clause # <<>> THEN ip_clause
    ELSE IF found = "tld" /\ tld_value # <<>> THEN tld_value
    ELSE IF found = "url" THEN url_filters(qv)
    ELSE IF found = "email" THEN <<Atom("email_norm = ?", <<lower(strip(qv))>>)>>
    ELSE IF found = "email_domain"
    THEN <<Atom("email_domain_norm = ?", <<normalize_email_domain(qv)>>)>>
    ELSE <<Atom("login_norm = ?", <<lower(strip(qv))>>)>>

\* lines 127-145: mode "all"
all_fields(qv) ==
    IF qv = <<>> THEN <<Atom("1=0", <<>>)>>
    ELSE url_clause(ip_prefix_clause(qv), tld_clause(qv), url_filters(qv))
         \o <<Atom("login_norm = ?", <<lower(strip(qv))>>),
              Atom("email_norm = ?", <<lower(strip(qv))>>),
              Atom("email_domain_norm = ?", <<normalize_email_domain(qv)>>)>>

build_query(urlv, emailv, loginv, email_domainv, qv, modev) ==
    IF modev = "all" THEN all_fields(qv)
    ELSE IF urlv # <<>>
    THEN url_clause(ip_prefix_clause(urlv), tld_clause(urlv), url_filters(urlv))
    ELSE IF emailv # <<>> THEN <<Atom("email_norm = ?", <<lower(strip(emailv))>>)>>
    ELSE IF loginv # <<>> THEN <<Atom("login_norm = ?", <<lower(strip(loginv))>>)>>
    ELSE IF email_domainv # <<>>
    THEN <<Atom("email_domain_norm = ?", <<normalize_email_domain(email_domainv)>>)>>
    ELSE IF qv # <<>>
    THEN query_clause(qv, detect_mode(qv), ip_prefix_clause(qv), tld_clause(qv))
    ELSE <<Atom("1=0", <<>>)>>

-----------------------------------------------------------------------------
(* The records table and the evaluation of a clause on a row.  The "?" of a *)
(* clause are bound to its arguments in order (db.adapt_query).             *)

Str(t) == [i \in 1..Len(t) |-> t[i]]

\* the rows ingest.parse_line stores for the lines
\*   "http://a.ru/x bob:pw", "1.2.3.4 r@a.ru:pw", "a.ru :pw", ":bob:pw"
records ==
    { [url_norm |-> <<"h", "t", "t", "p", ":", "/", "/", "a", ".", "r", "u", "/", "x">>,
       domain_norm |-> <<"a", ".", "r", "u">>, login_norm |-> <<"b", "o", "b">>,
       email_norm |-> <<>>, email_domain_norm |-> <<>>],
      [url_norm |-> <<"1", ".", "2", ".", "3", ".", "4">>,
       domain_norm |-> <<"1", ".", "2", ".", "3", ".", "4">>,
       login_norm |-> <<"r", "@", "a", ".", "r", "u">>,
       email_norm |-> <<"r", "@", "a", ".", "r", "u">>,
       email_domain_norm |-> <<"a", ".", "r", "u">>],
      [url_norm |-> <<"a", ".", "r", "u">>, domain_norm |-> <<"a", ".", "r", "u">>,
       login_norm |-> <<>>, email_norm |-> <<>>, email_domain_norm |-> <<>>],
      [url_norm |-> <<>>, domain_norm |-> <<>>, login_norm |-> <<"b", "o", "b">>,
       email_norm |-> <<>>, email_domain_norm |-> <<>>] }

RECURSIVE like(_, _)
\* s LIKE pattern: "%" is any run of characters, "_" any one character
like(s, pattern) ==
    IF pattern = <<>> THEN s = <<>>
    ELSE IF pattern[1] = "%" THEN like(s, Tail(pattern)) \/ (s # <<>> /\ like(Tail(s), pattern))
    ELSE /\ s # <<>>
         /\ pattern[1] = "_" \/ pattern[1] = s[1]
         /\ like(Tail(s), Tail(pattern))

\* the number p1 * 2^24 + p2 * 2^16 + p3 * 2^8 + p4 of four groups of up to
\* three digits, its carries taken from the last group to the first
int_of_groups(x1, x2, x3, n4) ==
    int_of_octets(<<x1 \div 256, x1 % 256, x2 % 256, x3 % 256, n4 % 256>>)

\* the carries of int_of_groups
carried(n1, n2, n3, n4) ==
    int_of_groups(n1 + (n2 + (n3 + n4 \div 256) \div 256) \div 256,
                  n2 + (n3 + n4 \div 256) \div 256, n3 + n4 \div 256, n4)

\* the four groups of a dotted text as numbers
groups_of(p) == carried(int_of(p[1], 10), int_of(p[2], 10), int_of(p[3], 10), int_of(p[4], 10))

\* the SQL function ip_to_int: the number of a text of four groups of one to
\* three digits, Invalid for NULL
ip_to_int(value) ==
    IF ~IsDottedDigits(value, 3, 3) THEN Invalid ELSE groups_of(split(value, <<".">>, -1))

\* a <= b on the digit lists of two numbers
int_le(a, b) ==
    \/ Len(a) < Len(b)
    \/ /\ Len(a) = Len(b)
       /\ \/ a = b
          \/ \E i \in 1..Len(a) : a[i] < b[i] /\ \A j \in 1..(i - 1) : a[j] = b[j]

\* does the row satisfy one atom of a clause
Satisfies(row, atom) ==
    CASE atom.sql = "1=0" -> FALSE
      [] atom.sql = "domain_norm = ?" -> row.domain_norm = atom.args[1]
      [] atom.sql = "url_norm = ?" -> row.url_norm = atom.args[1]
      [] atom.sql = "login_norm = ?" -> row.login_norm = atom.args[1]
      [] atom.sql = "email_norm = ?" -> row.email_norm = atom.args[1]
      [] atom.sql = "email_domain_norm = ?" -> row.email_domain_norm = atom.args[1]
      [] atom.sql = "domain_norm LIKE ?" -> like(row.domain_norm, atom.args[1])
      [] atom.sql = "url_norm LIKE ?" -> like(row.url_norm, atom.args[1])
      [] atom.sql = "ip_to_int(domain_norm) BETWEEN ? AND ?" ->
            /\ ip_to_int(row.domain_norm) # Invalid
            /\ int_le(atom.args[1], ip_to_int(row.domain_norm))
            /\ int_le(ip_to_int(row.domain_norm), atom.args[2])

\* SELECT ... FROM records WHERE clause
select(clause) == {row \in records : \E i \in 1..Len(clause) : Satisfies(row, clause[i])}

-----------------------------------------------------------------------------
(* One request to /api/search: build_query, then the counting query *)

MaxQueryFrags == 3

QueryFrags ==
    { <<"1">>, <<"8">>, <<".">>, <<"*">>, <<"/">>, <<"@">>, <<"a">>, <<"r">>, <<"U">>, <<" ">>,
      <<":", "/", "/">>, <<"1", ".", "2", ".", "3", ".", "4">>, <<":", ":">> }

Queries == {Concat(pieces) : pieces \in SeqUpTo(QueryFrags, MaxQueryFrags)}

Modes == {"", "all"}

\* requests that name fields: each field empty or one value, q empty or "zed"
FieldUrls == {<<>>, <<"a", ".", "r", "u">>}
FieldEmails == {<<>>, <<"r", "@", "a", ".", "r", "u">>}
FieldLogins == {<<>>, <<"b", "o", "b">>}
FieldEmailDomains == {<<>>, <<"@", "a", ".", "r", "u">>}
FieldQueries == {<<>>, <<"z", "e", "d">>, <<" ">>}

InitQuery ==
    /\ \/ /\ url = <<>> /\ email = <<>> /\ login = <<>> /\ email_domain = <<>>
          /\ q \in Queries
       \/ /\ url \in FieldUrls
          /\ email \in FieldEmails
          /\ login \in FieldLogins
          /\ email_domain \in FieldEmailDomains
          /\ q \in FieldQueries
    /\ mode \in Modes
    /\ detected = "unset"
    /\ where = <<>>
    /\ count = 0
    /\ query_pc = "request"
    /\ IdleList
    /\ IdleMatchDomain
    /\ IdleLine
    /\ IdleDedup
    /\ IdleScan

\* search, line 455: where, args = build_query(url, email, login, email_domain, q, mode)
BuildQuery ==
    /\ query_pc = "request"
    /\ where' = build_query(url, email, login, email_domain, q, mode)
    /\ detected' = IF /\ mode # "all" /\ url = <<>> /\ email = <<>> /\ login = <<>>
                      /\ email_domain = <<>> /\ q # <<>>
                   THEN detect_mode(q) ELSE "unset"
    /\ query_pc' = "built"
    /\ UNCHANGED <<url, email, login, email_domain, q, mode, count,
                   listVars, mdVars, lineVars, dedupVars, scanVars>>

\* search, line 457: count = the number of rows of records WHERE {where}
Count ==
    /\ query_pc = "built"
    /\ count' = Cardinality(select(where))
    /\ query_pc' = "answered"
    /\ UNCHANGED <<url, email, login, email_domain, q, mode, detected, where,
                   listVars, mdVars, lineVars, dedupVars, scanVars>>

NextQuery == BuildQuery \/ Count

SpecQuery == InitQuery /\ [][NextQuery]_vars

-----------------------------------------------------------------------------
(* Requests whose q is in IP or CIDR form: an address of dotted groups or an *)
(* IPv6 text, then nothing, ".", ".*" or "/" and a mask                      *)

MaxOctets == 4

OctetTexts == {<<"0">>, <<"1", "0">>, <<"6", "3">>, <<"2", "5", "5">>, <<"3", "0", "0">>}

Ipv6Texts == {<<":", ":">>, <<":", ":", "1", "0">>, <<"1", "0", ":", ":">>}

AddressTexts ==
    {join(<<".">>, groups) : groups \in SeqUpTo(OctetTexts, MaxOctets) \ {<<>>}} \cup Ipv6Texts

MaskTexts ==
    { <<>>, <<"0">>, <<"8">>, <<"0", "9">>, <<"1", "6">>, <<"1", "8">>, <<"2", "4">>,
      <<"3", "2">>, <<"3", "3">>, <<"1", "2", "8">>,
      <<"2", "5", "5", ".", "2", "5", "5", ".", "1", "9", "2", ".", "0">>, <<"0", ".", "0", ".", "6", "3", ".", "2", "5", "5">>, <<"2", "5", "5", ".", "0", ".", "2", "5", "5", ".", "0">> }

CidrQueries ==
    {address \o suffix : address \in AddressTexts,
                         suffix \in {<<>>, <<".">>, <<".", "*">>} \cup {<<"/">> \o mask : mask \in MaskTexts}}

InitCidr ==
    /\ url = <<>> /\ email = <<>> /\ login = <<>> /\ email_domain = <<>>
    /\ q \in CidrQueries
    /\ mode = ""
    /\ detected = "unset"
    /\ where = <<>>
    /\ count = 0
    /\ query_pc = "request"
    /\ IdleList
    /\ IdleMatchDomain
    /\ IdleLine
    /\ IdleDedup
    /\ IdleScan

SpecCidr == InitCidr /\ [][NextQuery]_vars

\* requests whose q is a URL text: up to MaxUrlFrags pieces of a host, a path
\* segment, "/", a scheme and the characters "_" and "%"
MaxUrlFrags == 4

UrlFrags ==
    { <<"a", ".", "r", "u">>, <<"/">>, <<"x">>, <<"_">>, <<"%">>, <<"U">>,
      <<"h", "t", "t", "p", ":", "/", "/">> }

UrlQueries == {Concat(pieces) : pieces \in SeqUpTo(UrlFrags, MaxUrlFrags)}

InitUrl ==
    /\ url = <<>> /\ email = <<>> /\ login = <<>> /\ email_domain = <<>>
    /\ q \in UrlQueries
    /\ mode = ""
    /\ detected = "unset"
    /\ where = <<>>
    /\ count = 0
    /\ query_pc = "request"
    /\ IdleList
    /\ IdleMatchDomain
    /\ IdleLine
    /\ IdleDedup
    /\ IdleScan

SpecUrl == InitUrl /\ [][NextQuery]_vars

-----------------------------------------------------------------------------
(* Properties of the query classifier and of build_query *)

\* the request names no field, so that build_query comes to its free-form q
NoField == url = <<>> /\ email = <<>> /\ login = <<>> /\ email_domain = <<>>

\* the order of the tests and the test of each mode on a trimmed query
ModeOrder == <<"ip", "tld", "email_domain", "email", "url", "login">>

ModeTest(m, value) ==
    CASE m = "ip" -> ip_prefix_clause(value) # <<>>
      [] m = "tld" -> tld_clause(value) # <<>>
      [] m = "email_domain" -> value[1] = "@"
      [] m = "email" -> "@" \in ToSet(value)
      [] m = "url" -> \/ "/" \in ToSet(value)
                      \/ "." \in ToSet(value)
                      \/ \E i \in 1..(Len(value) - 2) : SubSeq(value, i, i + 2) = <<":", "/", "/">>
      [] m = "login" -> TRUE

FirstMode(value) ==
    ModeOrder[CHOOSE i \in 1..6 : /\ ModeTest(ModeOrder[i], value)
                                  /\ \A j \in 1..(i - 1) : ~ModeTest(ModeOrder[j], value)]

\* the predicate that belongs to a mode
ModePredicate(m, value) ==
    CASE m = "ip" -> ip_prefix_clause(value)
      [] m = "tld" -> tld_clause(value)
      [] m = "email_domain" -> <<Atom("email_domain_norm = ?", <<normalize_email_domain(value)>>)>>
      [] m = "email" -> <<Atom("email_norm = ?", <<lower(strip(value))>>)>>
      [] m = "url" -> url_filters(value)
      [] m = "login" -> <<Atom("login_norm = ?", <<lower(strip(value))>>)>>

\* C2: for a free-form q that is not empty once trimmed, detect_mode returns
\* the first mode, in the order ip, tld, email_domain, email, url, login, whose
\* test succeeds, build_query returns the predicate of that mode, and
\* detect_mode returns no mode only for a q that is empty once trimmed.
C2_FirstModeInOrder ==
    (query_pc # "request" /\ detected # "unset") =>
        /\ detected = "None" <=> strip(q) = <<>>
        /\ strip(q) # <<>> =>
              /\ detected = FirstMode(strip(q))
              /\ where = ModePredicate(detected, q)

\* a q that starts with "@" and holds a "/" and a "." was answered: the tests
\* of email_domain, email and url all succeed on it and the first one won
C2_Witness ==
    /\ query_pc = "answered"
    /\ q = <<"@", "a", "/">>
    /\ detected = "email_domain"
    /\ where = <<Atom("email_domain_norm = ?", <<<<"a", "/">>>>)>>

\* the predicate of the first field given, in the order url, email, login, email_domain
FieldPredicate ==
    IF url # <<>> THEN url_clause(ip_prefix_clause(url), tld_clause(url), url_filters(url))
    ELSE IF email # <<>> THEN <<Atom("email_norm = ?", <<lower(strip(email))>>)>>
    ELSE IF login # <<>> THEN <<Atom("login_norm = ?", <<lower(strip(login))>>)>>
    ELSE <<Atom("email_domain_norm = ?", <<normalize_email_domain(email_domain)>>)>>

\* a predicate over all fields: it ends with the equalities on login_norm,
\* email_norm and email_domain_norm
IsAllFields(clause) ==
    /\ Len(clause) >= 4
    /\ clause[Len(clause) - 2].sql = "login_norm = ?"
    /\ clause[Len(clause) - 1].sql = "email_norm = ?"
    /\ clause[Len(clause)].sql = "email_domain_norm = ?"

\* C3: a field that is given decides the predicate, url before email before
\* login before email_domain, whatever q and mode are; the predicate over all
\* fields is returned only for mode "all" with no field given.
C3_ExplicitFieldFirst ==
    query_pc # "request" =>
        /\ ~NoField => where = FieldPredicate
        /\ IsAllFields(where) => (mode = "all" /\ NoField)

\* outside mode "all" the fields do come first, in their order
FieldFirstOutsideAll ==
    (query_pc # "request" /\ mode # "all" /\ ~NoField) => where = FieldPredicate

\* C4: a request with no field and a q that is empty, or empty once trimmed,
\* gets in both modes a predicate that no row of records satisfies.
C4_EmptyQueryMatchesNothing ==
    (query_pc # "request" /\ NoField /\ strip(q) = <<>>) =>
        /\ select(where) = {}
        /\ \A i \in 1..Len(where) : where[i].args # << <<>> >>

\* a q of no character at all does get the predicate that matches nothing
EmptyStringMatchesNothing ==
    (query_pc # "request" /\ NoField /\ q = <<>>) => where = <<Atom("1=0", <<>>)>>

\* [a-z0-9-]{2,63}
IsTldLabel(s) ==
    Len(s) \in 2..63 /\ \A i \in 1..Len(s) : s[i] \in LowerLetters \cup Digits \cup {"-"}

\* C10 as stated: a q that starts with "." is tld, with the predicate
\* domain_norm LIKE "%" + q, exactly when what follows the dot matches
\* [a-z0-9-]{2,63}, and is login when it does not.
C10_DotLedTldElseLogin ==
    (query_pc # "request" /\ detected # "unset" /\ q # <<>> /\ q[1] = ".") =>
        /\ detected = "tld" <=> IsTldLabel(Tail(q))
        /\ detected = "tld" => where = <<Atom("domain_norm LIKE ?", <<(<<"%">> \o q)>>)>>
        /\ detected # "tld" => detected = "login"

\* C10: a q whose trimmed, lower-cased value v starts with "." is tld, with the
\* predicate domain_norm LIKE "%" + v, exactly when what follows the dot in v
\* matches [a-z0-9-]{2,63}; when it does not, q is email if it holds an "@"
\* and url otherwise, and never login.
C10_DotLedTldElseUrl ==
    (query_pc # "request" /\ detected # "unset" /\ startswith(strip(q), <<".">>)) =>
        /\ detected = "tld" <=> IsTldLabel(Tail(lower(strip(q))))
        /\ detected = "tld" =>
              where = <<Atom("domain_norm LIKE ?", <<(<<"%">> \o lower(strip(q)))>>)>>
        /\ detected # "tld" => detected = (IF "@" \in ToSet(q) THEN "email" ELSE "url")

\* ".r" was answered: one character after the dot, refused by the TLD test,
\* classified by its "." as url
C10_Witness ==
    /\ query_pc = "answered"
    /\ q = <<".", "r">>
    /\ tld_clause(q) = <<>>
    /\ detected = "url"
    /\ where = <<Atom("domain_norm = ?", <<q>>), Atom("url_norm = ?", <<q>>)>>

-----------------------------------------------------------------------------
(* main: reading the list file *)

\* list files of up to MaxListLines lines
MaxListLines == 3

ListLines ==
    { <<"a", ".", "b">>, <<"@", "A", ".", "B", "\n">>, <<"#", " ", "c">>, <<"\n">>,
      <<"1", ".", "1", ".", "1", ".", "1">>, <<".", "b">>, <<"a", ".", "b", ".", "\n">>,
      <<"@">>, <<" ", "@", " ", "b", "\n">> }

ListFiles == SeqUpTo(ListLines, MaxListLines)

InitLoad ==
    /\ list_file \in ListFiles
    /\ load_pc = "start"
    /\ domain_set = {}
    /\ ips = <<>>
    /\ skip_email = FALSE
    /\ email_only = FALSE
    /\ IdleMatchDomain
    /\ IdleLine
    /\ IdleDedup
    /\ IdleScan
    /\ IdleQuery

\* main, line 288: domains, ips = load_patterns(list_path); domain_set holds
\* set(domains), the set search_files makes of the list at line 215
LoadPatterns ==
    /\ load_pc = "start"
    /\ domain_set' = ToSet(load_patterns(list_file).domains)
    /\ ips' = load_patterns(list_file).ips
    /\ load_pc' = "loaded"
    /\ UNCHANGED <<list_file, skip_email, email_only, mdVars, lineVars, dedupVars, scanVars,
                   queryVars>>

\* main, lines 289-290: raise SystemExit where both lists are empty
RefuseEmptyList ==
    /\ load_pc = "loaded"
    /\ domain_set = {} /\ ips = <<>>
    /\ load_pc' = "refused"
    /\ UNCHANGED <<list_file, domain_set, ips, skip_email, email_only, mdVars, lineVars,
                   dedupVars, scanVars, queryVars>>

\* main, line 292: search_files is called with the lists
CallSearchFiles ==
    /\ load_pc = "loaded"
    /\ ~(domain_set = {} /\ ips = <<>>)
    /\ load_pc' = "searching"
    /\ UNCHANGED <<list_file, domain_set, ips, skip_email, email_only, mdVars, lineVars,
                   dedupVars, scanVars, queryVars>>

NextLoad == LoadPatterns \/ RefuseEmptyList \/ CallSearchFiles

SpecLoad == InitLoad /\ [][NextLoad]_vars

(* Properties of the IP and CIDR forms *)

RECURSIVE int_value(_)
\* the number a list of base-256 digits stands for, where it is below 2^31
int_value(n) == IF n = <<>> THEN 0 ELSE int_value(SubSeq(n, 1, Len(n) - 1)) * 256 + n[Len(n)]

\* the predicate is one range over ip_to_int(domain_norm)
IsRange(clause) == Len(clause) = 1 /\ clause[1].sql = "ip_to_int(domain_norm) BETWEEN ? AND ?"

\* C11 as stated: the query 10.0.0.0/18 builds the range predicate over
\* ip_to_int(domain_norm) from 167772160 (network) to 167838207 (broadcast).
C11_Range18AsStated ==
    (query_pc # "request" /\ q = <<"1", "0", ".", "0", ".", "0", ".", "0", "/", "1", "8">>) =>
        /\ IsRange(where)
        /\ int_value(where[1].args[1]) = 167772160
        /\ int_value(where[1].args[2]) = 167838207

\* C11: the query 10.0.0.0/18 builds the range predicate over
\* ip_to_int(domain_norm) from 167772160 (network, 10.0.0.0) to 167788543
\* (broadcast, 10.0.63.255).
C11_Range18 ==
    (query_pc # "request" /\ q = <<"1", "0", ".", "0", ".", "0", ".", "0", "/", "1", "8">>) =>
        /\ IsRange(where)
        /\ int_value(where[1].args[1]) = 167772160
        /\ int_value(where[1].args[2]) = 167788543
        /\ where[1].args[2] = <<10, 0, 63, 255>>

\* 10.0.0.0/18 was classified ip and answered with a range
C11_Witness ==
    /\ query_pc = "answered"
    /\ q = <<"1", "0", ".", "0", ".", "0", ".", "0", "/", "1", "8">>
    /\ detected = "ip"
    /\ IsRange(where)

\* the parts of a q of the form ip/mask
QueryIp == split(q, <<"/">>, 1)[1]

QueryMask == split(q, <<"/">>, 1)[2]

ShortcutMasks == {<<"8">>, <<"1", "6">>, <<"2", "4">>, <<"3", "2">>}

\* q is ip/mask with a mask that is no shortcut mask
GeneralCidr == contains(q, <<"/">>) /\ QueryMask \notin ShortcutMasks

\* how many of the low bits of byte k are host bits under a prefix length
HostBits(prefixlen, k) ==
    IF 8 * k - prefixlen >= 8 THEN 8 ELSE IF 8 * k - prefixlen <= 0 THEN 0 ELSE 8 * k - prefixlen

\* a number of at most 32 bits, as four bytes
FourBytes(n) == [k \in 1..4 |-> IF k <= 4 - Len(n) THEN 0 ELSE n[k - (4 - Len(n))]]

\* low is the address with its host bits cleared and high = low + 2^(32 - mask) - 1
IsBlockOf(low, high, address, prefixlen) ==
    \A k \in 1..4 :
        /\ FourBytes(low)[k] = address[k] - (address[k] % (2 ^ HostBits(prefixlen, k)))
        /\ FourBytes(high)[k] = FourBytes(low)[k] + 2 ^ HostBits(prefixlen, k) - 1

\* C12: for q = ip/mask with a mask other than 8, 16, 24, 32, ip_prefix_clause
\* returns no predicate, or the range from low to high where low is the IPv4
\* address with its host bits cleared and high = low + 2^(32 - mask) - 1, so
\* that 0 <= low <= high <= 2^32 - 1; no IPv6 text gets a range.
C12_RangeIsIPv4Block ==
    (query_pc # "request" /\ GeneralCidr) =>
        \/ ip_prefix_clause(q) = <<>>
        \/ /\ where = ip_prefix_clause(q)
           /\ IsRange(where)
           /\ ~contains(q, <<":">>)
           /\ Len(where[1].args[1]) <= 4
           /\ Len(where[1].args[2]) <= 4
           /\ int_le(where[1].args[1], where[1].args[2])
           /\ isdigit(QueryMask) =>
                 IsBlockOf(where[1].args[1], where[1].args[2],
                           ipv4_octets(QueryIp), int_of(QueryMask, 10))

\* for an address without ":" the range is the IPv4 block, host bits cleared
Ipv4TextGetsItsBlock ==
    (query_pc # "request" /\ GeneralCidr /\ ~contains(q, <<":">>) /\ where # <<>>
     /\ detected = "ip") =>
        /\ IsRange(where)
        /\ Len(where[1].args[2]) <= 4
        /\ int_le(where[1].args[1], where[1].args[2])
        /\ isdigit(QueryMask) =>
              IsBlockOf(where[1].args[1], where[1].args[2],
                        ipv4_octets(QueryIp), int_of(QueryMask, 10))

\* the exact-match predicate on domain_norm
Equals(column, value) == <<Atom(column \o " = ?", <<value>>)>>

\* d is a dotted quad: four groups of one to three decimal digits
IsQuad(d) == IsDottedDigits(d, 3, 3)

\* C13: for every dotted-quad string d, the query q = d is classified ip and
\* its predicate is Equals(domain_norm, d); the query q = d/32 is classified
\* ip and gets the same exact-match predicate Equals(domain_norm, d).
C13_QuadIsExactMatch ==
    query_pc # "request" =>
        /\ IsQuad(q) => (detected = "ip" /\ where = Equals("domain_norm", q))
        /\ (contains(q, <<"/">>) /\ IsQuad(QueryIp) /\ QueryMask = <<"3", "2">>) =>
               (detected = "ip" /\ where = Equals("domain_norm", QueryIp))

\* 10.0.63.255/32 was answered with the exact match on 10.0.63.255
C13_Witness ==
    /\ query_pc = "answered"
    /\ q = <<"1", "0", ".", "0", ".", "6", "3", ".", "2", "5", "5", "/", "3", "2">>
    /\ detected = "ip"
    /\ where = Equals("domain_norm", <<"1", "0", ".", "0", ".", "6", "3", ".", "2", "5", "5">>)

\* the decimal groups of an address text
DigitGroups(text) == split(text, <<".">>, -1)

\* a decimal group above 255 appears among the groups of the text
HasInvalidOctet(text) ==
    \E i \in 1..Len(DigitGroups(text)) :
        IsDigitGroup(DigitGroups(text)[i]) /\ int_of(DigitGroups(text)[i], 10) > 255

\* q in one of the IP forms: bare quad, groups followed by ".*" or ".", quad/mask
IsWildcardForm == endswith(q, <<".", "*">>) /\ IsDottedDigits(SubSeq(q, 1, Len(q) - 2), 0, 2)

IsDotForm == endswith(q, <<".">>) /\ IsDottedDigits(SubSeq(q, 1, Len(q) - 1), 0, 3)

IsCidrForm == contains(q, <<"/">>) /\ IsQuad(QueryIp)

\* the address part of q in any of the forms
AddressPart ==
    IF IsWildcardForm THEN SubSeq(q, 1, Len(q) - 2)
    ELSE IF IsDotForm THEN SubSeq(q, 1, Len(q) - 1)
    ELSE IF IsCidrForm THEN QueryIp
    ELSE q

\* the mask of q is neither a prefix length 0..32 nor a dotted mask
MalformedMask ==
    /\ IsCidrForm
    /\ ~IsQuad(QueryMask)
    /\ ~(isdigit(QueryMask) /\ Len(QueryMask) <= 3 /\ int_of(QueryMask, 10) <= 32)

\* C14: a query in IP or CIDR form (bare quad, ".*" or trailing-dot prefix,
\* quad/mask with any mask) that has a decimal group greater than 255 or a
\* malformed mask falls through: ip_prefix_clause yields no predicate for it
\* and detect_mode does not return ip.
C14_InvalidFallsThrough ==
    (/\ query_pc # "request"
     /\ IsQuad(q) \/ IsWildcardForm \/ IsDotForm \/ IsCidrForm
     /\ HasInvalidOctet(AddressPart) \/ MalformedMask) =>
        (ip_prefix_clause(q) = <<>> /\ detected # "ip")

\* a quad with a mask that is no prefix length falls through
MalformedMaskFallsThrough ==
    (query_pc # "request" /\ MalformedMask) => (ip_prefix_clause(q) = <<>> /\ detected # "ip")

\* an invalid octet before a mask other than 8, 16, 24 and 32 falls through
InvalidOctetGeneralMaskFallsThrough ==
    (query_pc # "request" /\ IsCidrForm /\ GeneralCidr /\ HasInvalidOctet(QueryIp)) =>
        (ip_prefix_clause(q) = <<>> /\ detected # "ip")

\* the prefix predicate: the column begins with the prefix
Prefix(column, prefix) == <<Atom(column \o " LIKE ?", <<prefix \o <<"%">> >>)>>

\* the first n octets of an address text, each followed by "."
FirstOctets(text, n) == join(<<".">>, SubSeq(DigitGroups(text), 1, n)) \o <<".">>

\* C15: for the ".*"-suffixed and "."-suffixed forms and for ip/8, ip/16 and
\* ip/24, ip_prefix_clause builds Prefix(domain_norm, first N octets + "."),
\* N being the number of octets given before the wildcard, respectively
\* mask/8; octets beyond the first N do not appear in the prefix.
C15_PrefixOfFirstOctets ==
    query_pc # "request" =>
        /\ (IsWildcardForm \/ IsDotForm) =>
               /\ ip_prefix_clause(q) =
                      Prefix("domain_norm", FirstOctets(AddressPart, Len(DigitGroups(AddressPart))))
               /\ where = ip_prefix_clause(q)
        /\ (IsCidrForm /\ QueryMask \in {<<"8">>, <<"1", "6">>, <<"2", "4">>}) =>
               /\ ip_prefix_clause(q) =
                      Prefix("domain_norm", FirstOctets(QueryIp, int_of(QueryMask, 10) \div 8))
               /\ where = ip_prefix_clause(q)

\* 10.0.63.255/16 was answered with the prefix 10.0.
C15_Witness ==
    /\ query_pc = "answered"
    /\ q = <<"1", "0", ".", "0", ".", "6", "3", ".", "2", "5", "5", "/", "1", "6">>
    /\ where = Prefix("domain_norm", <<"1", "0", ".", "0", ".">>)

(* Properties of the URL predicate *)

\* the value url_filters works on, and the same with trailing slashes trimmed
NormalizedValue == lower(strip(q))

TrimmedValue == rstrip(NormalizedValue, {"/"})

\* the value looks like a path
PathLike == contains(NormalizedValue, <<":", "/", "/">>) \/ contains(NormalizedValue, <<"/">>)

\* the host urlparse finds in the value
ParsedHost == hostname(url_candidate(NormalizedValue))

\* the clauses of the URL predicate are the stated ones, in their order
UrlClausesAsStated ==
    where = (IF ParsedHost # <<>> THEN Equals("domain_norm", ParsedHost) ELSE <<>>)
            \o Equals("url_norm", NormalizedValue)
            \o (IF PathLike THEN Prefix("url_norm", TrimmedValue) ELSE <<>>)

\* the last clause matches exactly the records whose url_norm begins with the
\* literal trimmed value
PrefixClauseIsLiteral ==
    \A row \in records :
        Satisfies(row, where[Len(where)]) <=> startswith(row.url_norm, TrimmedValue)

\* C16: for a query classified as url, the predicate is the OR of
\* Equals(domain_norm, host), present iff a host was parsed, of
\* Equals(url_norm, normalized value) and, iff the value contains "://" or
\* "/", of a prefix clause on url_norm that matches exactly the records whose
\* url_norm begins with the literal normalized value, trailing slash trimmed.
C16_UrlPredicate ==
    (query_pc # "request" /\ detected = "url") =>
        /\ UrlClausesAsStated
        /\ PathLike => PrefixClauseIsLiteral

\* the clauses alone are as stated
UrlClausesHold == (query_pc # "request" /\ detected = "url") => UrlClausesAsStated

\* without "_" and "%" in the value the prefix clause is the literal prefix
LiteralWithoutWildcards ==
    (/\ query_pc # "request" /\ detected = "url" /\ PathLike
     /\ \A i \in 1..Len(q) : q[i] \notin {"_", "%"}) => PrefixClauseIsLiteral

(* Properties of the compiled watchlist *)

\* a line of the list file is blank or a comment
Ignored(text) == strip(text) = <<>> \/ startswith(strip(text), <<"#">>)

\* the entry of a line: trimmed, one leading "@" taken off
ListEntry(text) ==
    strip(IF startswith(strip(text), <<"@">>) THEN Tail(strip(text)) ELSE strip(text))

\* the entries of the lines that are not ignored
KeptEntries ==
    {ListEntry(list_file[i]) : i \in {j \in 1..Len(list_file) : ~Ignored(list_file[j])}} \ {<<>>}

DotStripped(d) == stripc(d, {"."})

\* the lists hold the entries of the kept lines: quads in the IP list, the
\* others lower-cased in the domain set
WatchlistIsKeptEntries ==
    /\ ToSet(ips) = {e \in KeptEntries : IsQuad(e)}
    /\ domain_set = {lower(e) : e \in {e \in KeptEntries : ~IsQuad(e)}}

\* the run is refused exactly when both lists are empty
RefusedIffEmpty ==
    load_pc \in {"refused", "searching"} =>
        (load_pc = "refused" <=> (domain_set = {} /\ ips = <<>>))

\* C17: the compiled watchlist ignores blank lines and lines starting with
\* "#", strips one leading "@", puts every full dotted-quad entry in the IP
\* list and every other entry in the domain set, every domain of the set
\* being lower-cased and dot-stripped (no leading or trailing "."); the run
\* is refused only when both lists are empty.
C17_CompiledWatchlist ==
    load_pc \in {"loaded", "refused", "searching"} =>
        /\ ToSet(ips) = {e \in KeptEntries : IsQuad(e)}
        /\ domain_set = {lower(DotStripped(e)) : e \in {e \in KeptEntries : ~IsQuad(e)}}
        /\ \A d \in domain_set :
              d = lower(d) /\ ~startswith(d, <<".">>) /\ ~endswith(d, <<".">>)
        /\ RefusedIffEmpty

\* all of it but the dot-stripping
WatchlistWithoutDotStrip ==
    load_pc \in {"loaded", "refused", "searching"} => (WatchlistIsKeptEntries /\ RefusedIffEmpty)

(* Properties of the workers' flushes *)

AllDone == \A t \in Task : Finished(t)

\* the lines of the match file that name the file of task t, in file order
WrittenBy(t) ==
    SelectSeq(output, LAMBDA ln : split(ln, <<"\t">>, 2)[2] = PathNames[files[t]])

\* the matches task t appended to its buffers: those of the lines it read,
\* the line that raised left out
Produced(t) ==
    file_matches(SubSeq(root[files[t]], 1,
                        IF tasks[t].pc = "raised" THEN tasks[t].pos - 1 ELSE tasks[t].pos),
                 PathNames[files[t]], <<>>)

\* a buffer is written as soon as it holds buffer_limit entries
FlushedAtLimit ==
    \A t \in Task :
        /\ Len(tasks[t].buffer) <= buffer_limit
        /\ (Len(tasks[t].buffer) = buffer_limit /\ ~tasks[t].eof) =>
               tasks[t].pc \in {"flush_wait", "flush_write"}

\* a worker that writes holds output_lock, and what it has written of its
\* batch is the end of the match file: no other line comes between
WritesUnderLock ==
    \A t \in Task :
        tasks[t].pc = "flush_write" =>
            /\ output_lock = t
            /\ Len(output) >= tasks[t].wpos
            /\ SubSeq(output, Len(output) - tasks[t].wpos + 1, Len(output))
                  = SubSeq(tasks[t].buffer, 1, tasks[t].wpos)

\* C18: every match a worker produces is written to the shared output
\* exactly once: the buffer is written under output_lock as soon as it holds
\* buffer_limit entries and once more at end of file, no worker writes without
\* holding output_lock, each batch is contiguous, and when all workers have
\* finished the output holds exactly the matches found, those of each file in
\* line order.
C18_EveryMatchWrittenOnce ==
    /\ FlushedAtLimit
    /\ WritesUnderLock
    /\ (AllDone /\ main_pc \in {"wait", "snap_wait", "snap", "dedup", "unwinding", "failed"}) =>
           \A t \in Task : WrittenBy(t) = Produced(t)

\* the same where no worker raised
WrittenOnceWithoutRaise ==
    /\ FlushedAtLimit
    /\ WritesUnderLock
    /\ (AllDone /\ main_pc \in {"wait", "snap_wait", "snap", "dedup"}
        /\ \A t \in Task : tasks[t].pc = "done") =>
           \A t \in Task : WrittenBy(t) = Produced(t)

(* Properties of the line loop under every line content *)

\* C19: for every line content the per-line step of process_file completes
\* without raising and the loop goes on to the next line; no single line
\* aborts the scan of its file or of the run.
C19_NoLineAborts ==
    /\ \A t \in Task : tasks[t].pc # "raised"
    /\ main_pc \notin {"unwinding", "failed"}

\* in the line loop on its own, the step raises on no line but one that is
\* not empty and holds whitespace only
OnlyBlankLineRaises ==
    line_pc = "raised" => (rstrip(line, {"\n"}) # <<>> /\ strip(line) = <<>>)

(* Properties of the order of scan and deduplication *)

\* C20: dedup_output starts only after every file task of the scan has
\* finished and the output file has been closed: once deduplication has begun
\* no worker is scanning or writing, and no lock is held.
C20_DedupAfterScan ==
    main_pc \in {"dedup", "finished"} =>
        /\ \A t \in Task : tasks[t].pc = "done"
        /\ output_lock = 0
        /\ progress_lock = 0

\* two workers scanned two files with matches and the match file was deduplicated
C20_Witness ==
    /\ main_pc = "finished"
    /\ workers = 2
    /\ Len(files) >= 2
    /\ dedup_runs = 1
    /\ output # <<>>

(* Properties of the worker pool *)

\* the call of task t has been taken by a pool thread
Started(t) == tasks[t].pc \notin {"unsubmitted", "queued"}

\* the size of the file of task t
SizeOf(t) == st_size(root[files[t]])

\* C21: the scan runs one task per input file on a pool of at most `workers`
\* threads: every file has exactly one task, at no time are more than
\* `workers` tasks running, and no file's task has started while the task of
\* a strictly larger file has not.
C21_PoolOfLargestFirst ==
    /\ Len(tasks) = Len(root)
    /\ Len(files) = Len(root)
    /\ \A f \in 1..Len(root) : Cardinality({t \in Task : files[t] = f}) = 1
    /\ Cardinality({t \in Task : Running(t)}) <= workers
    /\ \A s \in Task : \A t \in Task :
          (Started(t) /\ SizeOf(s) > SizeOf(t)) => Started(s)

\* one worker is busy with the larger file, which is second in path order,
\* and the smaller file waits in the queue
C21_Witness ==
    /\ workers = 1
    /\ files = <<2, 1>>
    /\ SizeOf(1) > SizeOf(2)
    /\ Running(1)
    /\ tasks[2].pc = "queued"

(* Properties of the locks and of termination *)

\* the threads: the tasks and main, which the locks name -1
HoldsBoth(thread) == output_lock = thread /\ progress_lock = thread

\* no thread holds output_lock and progress_lock at the same time
NeverBothLocks == (\A t \in Task : ~HoldsBoth(t)) /\ ~HoldsBoth(-1)

\* a state without a step is the end of the run: no thread waits for ever
NoDeadlock == CanStep \/ main_pc \in {"finished", "failed"}

\* the run has reached deduplication: every task ended, every completion seen
RunComplete ==
    /\ main_pc = "finished"
    /\ yielded = Task
    /\ \A t \in Task : tasks[t].pc = "done"

\* C22: no thread ever holds output_lock and progress_lock at the same time,
\* so no interleaving can deadlock; every submitted file task finishes, the
\* main thread observes every completion and the run reaches deduplication:
\* as long as the run is not complete some thread can step, so that under
\* fair scheduling the run stops nowhere else.
C22_LocksAndTermination ==
    /\ NeverBothLocks
    /\ CanStep \/ RunComplete

\* the same as a property of the fair runs
LocksAndTerminationOfFairRuns ==
    /\ []NeverBothLocks
    /\ []NoDeadlock
    /\ <>RunComplete

\* the locks are never held together, no run deadlocks and every run ends:
\* every task comes to its end and main leaves search_files
LocksAndEndOfRun ==
    /\ []NeverBothLocks
    /\ []NoDeadlock
    /\ <>(AllDone /\ main_pc \in {"finished", "failed"})

\* a run in which no call raises reaches deduplication, all completions seen
ReachesDedupUnlessRaised ==
    <>(\/ \E t \in Task : tasks[t].pc = "raised"
       \/ main_pc = "finished" /\ yielded = Task /\ \A t \in Task : tasks[t].pc = "done")

(* Properties of the shortcut predicates against the range predicate *)

\* values of domain_norm that ingest stores: the lower-cased host of the URL,
\* be it an IPv4 literal, a literal with a leading zero or an octet above
\* 255, a hostname that begins with digits, another hostname, or empty
StoredDomains ==
    { <<"1", "0", ".", "0", ".", "0", ".", "0">>,
      <<"1", "0", ".", "0", ".", "6", "3", ".", "2", "5", "5">>,
      <<"1", "0", ".", "6", "3", ".", "0", ".", "0">>,
      <<"2", "5", "5", ".", "0", ".", "0", ".", "1", "0">>,
      <<"0", "1", "0", ".", "0", ".", "0", ".", "0">>,
      <<"1", "0", ".", "0", ".", "0", ".", "3", "0", "0">>,
      <<"1", "0", ".", "0", ".", "0", ".", "0", ".", "a", ".", "r", "u">>,
      <<"a", ".", "r", "u">>,
      <<>> }

\* the row ingest stores for a URL that is the bare host d and the login bob
DomainRow(d) ==
    [url_norm |-> d, domain_norm |-> d, login_norm |-> <<"b", "o", "b">>,
     email_norm |-> <<>>, email_domain_norm |-> <<>>]

\* the general range predicate of the CIDR block of q, <<>> where q names none
BlockRange == range_clause(ip_network(lower(strip(q))))

\* q is ip/mask with a shortcut mask and names a CIDR block
ShortcutOfBlock ==
    /\ query_pc # "request"
    /\ IsCidrForm
    /\ QueryMask \in ShortcutMasks
    /\ where # <<>>
    /\ BlockRange # <<>>

\* d is an IPv4 literal in its usual writing: four groups up to 255, no leading zero
IsPlainIPv4(d) ==
    /\ IsQuad(d)
    /\ \A i \in 1..4 :
          /\ int_of(DigitGroups(d)[i], 10) <= 255
          /\ (Len(DigitGroups(d)[i]) > 1 => DigitGroups(d)[i][1] # "0")

\* C23: for masks 8, 16, 24 and 32 the shortcut predicate on the text of
\* domain_norm selects exactly the records the range predicate
\* ip_to_int(domain_norm) BETWEEN network AND broadcast selects for the same
\* CIDR block, for every stored domain_norm value, hostnames that are no IPv4
\* literals and query addresses with host bits set included.
C23_ShortcutIsRange ==
    ShortcutOfBlock =>
        \A d \in StoredDomains :
            Satisfies(DomainRow(d), where[1]) <=> Satisfies(DomainRow(d), BlockRange[1])

\* on the stored values that are plain IPv4 literals the two select the same
ShortcutIsRangeOnPlainIPv4 ==
    ShortcutOfBlock =>
        \A d \in {e \in StoredDomains : IsPlainIPv4(e)} :
            Satisfies(DomainRow(d), where[1]) <=> Satisfies(DomainRow(d), BlockRange[1])

=============================================================================
